---- MODULE Spec2Model ----
(***************************************************************************)
(* Kura: a dual-pane, vim-key file browser.  The model is the event loop   *)
(* run_app (one action per key event), the panes and session it mutates,   *)
(* and the file-system calls it makes, over a small disk.                   *)
(*                                                                         *)
(* The repository holds run_app twice: src/main.rs (the binary, one file)  *)
(* and src/input.rs (the same loop split into modules).  The two differ in *)
(* two places (Visual mode's `continue`, the is_file test on Enter); the   *)
(* variable `build` says which of the two a behaviour runs.                *)
(***************************************************************************)
EXTENDS Integers, Sequences, FiniteSets, TLC

VARIABLES
    disk,        \* the file system: path -> node
    left,        \* App.left  : Pane
    right,       \* App.right : Pane
    active,      \* App.active : PaneType
    mode,        \* App.mode : Mode
    clipboard,   \* App.clipboard : Vec<PathBuf>
    prefix,      \* run_app local `prefix`
    last_key_g,  \* run_app local `last_key_g`
    status,      \* "running"; "quit" once run_app has returned; "panicked"
    preview,     \* TRUE while run_app is inside show_image's loop
    build,       \* "main" (src/main.rs) or "input" (src/input.rs)
    last,        \* the last key event handled and what its handler did
    fsops,       \* number of key events so far that wrote to the disk
    nkeys,       \* number of key events so far
    copy         \* the call stack of copy_dir_recursively, when it is run
                 \* frame by frame

vars == <<disk, left, right, active, mode, clipboard, prefix, last_key_g,
          status, preview, build, last, fsops, nkeys, copy>>

----------------------------------------------------------------------------
(* Bounds of the model *)

\* longest query / rename buffer the key source types
MaxBuf == 2
\* largest pending count the key source types
MaxPrefix == 20
\* largest viewer offset the key source scrolls to
MaxOffset == 4
\* deepest path the file system accepts (stands for PATH_MAX)
MaxDepth == 3
\* number of key events that write to the disk in one behaviour
MaxFsOps == 2
\* number of key events in one behaviour
MaxKeys == 4
\* number of key events in one behaviour of the file-operation key source
MaxOpsKeys == 6
\* number of its key events that write to the disk
MaxOpsWrites == 1
\* number of key events in one behaviour of the navigation key source
MaxNavKeys == 5
\* number of its key events that write to the disk
MaxNavWrites == 1
\* number of key events in one behaviour of the sort key source
MaxSortKeys == 6
\* number of its key events that write to the disk
MaxSortWrites == 1
\* number of key events in one behaviour of the viewer's scroll keys
MaxScrollKeys == 2

----------------------------------------------------------------------------
(* Characters, names and paths.  A name is a sequence of one-character     *)
(* strings, a path the sequence of names below the root.                   *)

\* ASCII code of the characters the model uses
Code(c) ==
    CASE c = "." -> 46  [] c = "/" -> 47
      [] c = "0" -> 48  [] c = "1" -> 49  [] c = "2" -> 50
      [] c = "B" -> 66  [] c = "G" -> 71  [] c = "V" -> 86  [] c = "X" -> 88
      [] c = "a" -> 97  [] c = "b" -> 98  [] c = "c" -> 99  [] c = "d" -> 100
      [] c = "e" -> 101 [] c = "f" -> 102 [] c = "m" -> 109 [] c = "t" -> 116
      [] c = "w" -> 119
      [] c = "g" -> 103 [] c = "h" -> 104 [] c = "i" -> 105 [] c = "j" -> 106
      [] c = "k" -> 107 [] c = "l" -> 108 [] c = "n" -> 110 [] c = "p" -> 112
      [] c = "q" -> 113 [] c = "r" -> 114 [] c = "s" -> 115 [] c = "u" -> 117
      [] c = "v" -> 118 [] c = "x" -> 120 [] c = "y" -> 121

AllChars == {".", "/", "0", "1", "2", "B", "G", "V", "X",
             "a", "b", "c", "d", "e", "f", "m", "t", "w", "g", "h", "i", "j", "k", "l", "n", "p",
             "q", "r", "s", "u", "v", "x", "y"}

\* char::is_ascii_digit
IsAsciiDigit(c) == 48 <= Code(c) /\ Code(c) <= 57

\* char::to_digit(10)
ToDigit(c) == Code(c) - 48

\* str::to_lowercase, one character
LowerChar(c) ==
    IF 65 <= Code(c) /\ Code(c) <= 90
    THEN CHOOSE d \in AllChars : Code(d) = Code(c) + 32
    ELSE c

\* str::to_lowercase
ToLowercase(s) == [i \in 1..Len(s) |-> LowerChar(s[i])]

\* str::contains: q occurs in s as a contiguous substring
Contains(s, q) ==
    \E i \in 0..(Len(s) - Len(q)) : SubSeq(s, i + 1, i + Len(q)) = q

\* Ord for OsString / String: lexicographic on the bytes
RECURSIVE BytesLess(_, _)
BytesLess(s, t) ==
    IF t = <<>> THEN FALSE
    ELSE IF s = <<>> THEN TRUE
    ELSE IF Code(Head(s)) # Code(Head(t)) THEN Code(Head(s)) < Code(Head(t))
    ELSE BytesLess(Tail(s), Tail(t))

Root == <<>>

\* Path::file_name: None for the root
HasFileName(p) == Len(p) > 0
FileName(p) == p[Len(p)]

\* Path::parent: None for the root
HasParent(p) == Len(p) > 0
Parent(p) == SubSeq(p, 1, Len(p) - 1)

\* Path::join with a plain name
Join(dir, name) == Append(dir, name)

\* p lies below (or is) q
IsPrefix(q, p) == Len(q) <= Len(p) /\ SubSeq(p, 1, Len(q)) = q

----------------------------------------------------------------------------
(* The file system.  disk maps every existing path to its node.  A node of *)
(* kind "dir" with access = FALSE is a directory the process may not open  *)
(* (read_dir, and creating entries in it, fail with EACCES); a file with   *)
(* access = FALSE cannot be opened for reading.                            *)

FileNode(text, lines, size, mt, ct) ==
    [kind |-> "file", access |-> TRUE, text |-> text, lines |-> lines,
     size |-> size, mtime |-> mt, ctime |-> ct]

DirNode(access, mt, ct) ==
    [kind |-> "dir", access |-> access, text |-> FALSE, lines |-> 0,
     size |-> 0, mtime |-> mt, ctime |-> ct]

Exists(dk, p) == p \in DOMAIN dk

\* Path::is_dir
IsDir(dk, p) == Exists(dk, p) /\ dk[p].kind = "dir"

\* Path::is_file
IsFile(dk, p) == Exists(dk, p) /\ dk[p].kind = "file"

Children(dk, dir) == {p \in DOMAIN dk : Len(p) = Len(dir) + 1 /\ IsPrefix(dir, p)}

Subtree(dk, q) == {p \in DOMAIN dk : IsPrefix(q, p)}

\* fs::read_dir(dir) returns Ok
ReadDirOk(dk, dir) == IsDir(dk, dir) /\ dk[dir].access

Without(dk, S) == [p \in (DOMAIN dk) \ S |-> dk[p]]

Put(dk, p, node) == [q \in (DOMAIN dk) \cup {p} |-> IF q = p THEN node ELSE dk[q]]

\* the clock when a key event is handled: later than every timestamp on the
\* disk (one handler's writes carry one timestamp)
Now(dk) ==
    LET ts == {dk[p].mtime : p \in DOMAIN dk} \cup {dk[p].ctime : p \in DOMAIN dk}
    IN  1 + (CHOOSE t \in ts : \A u \in ts : u <= t)

\* an entry can be created at p: the parent is a directory the process may
\* write, and the path is not too long
CanCreateIn(dk, p) ==
    /\ HasParent(p)
    /\ IsDir(dk, Parent(p))
    /\ dk[Parent(p)].access
    /\ Len(p) <= MaxDepth

\* fs::create_dir_all(p): creates p and every missing ancestor; now is the
\* time of the call
RECURSIVE CreateDirAll(_, _, _)
CreateDirAll(dk, p, now) ==
    IF IsDir(dk, p) THEN [ok |-> TRUE, dk |-> dk]
    ELSE IF Exists(dk, p) \/ ~HasParent(p) THEN [ok |-> FALSE, dk |-> dk]
    ELSE LET up == CreateDirAll(dk, Parent(p), now)
         IN  IF up.ok /\ CanCreateIn(up.dk, p)
             THEN [ok |-> TRUE, dk |-> Put(up.dk, p, DirNode(TRUE, now, now))]
             ELSE [ok |-> FALSE, dk |-> up.dk]

\* fs::copy(src, dst) of a regular file.  dst is opened with create+truncate
\* before any byte is read, so copying a file onto itself empties it.
CopyFile(dk, src, dst, now) ==
    IF ~(IsFile(dk, src) /\ dk[src].access) THEN [ok |-> FALSE, dk |-> dk]
    ELSE IF IsDir(dk, dst) THEN [ok |-> FALSE, dk |-> dk]
    ELSE IF ~Exists(dk, dst) /\ ~CanCreateIn(dk, dst) THEN [ok |-> FALSE, dk |-> dk]
    ELSE IF src = dst
         THEN [ok |-> TRUE,
               dk |-> Put(dk, dst, FileNode(TRUE, 0, 0, now, dk[src].ctime))]
    ELSE [ok |-> TRUE,
          dk |-> Put(dk, dst, FileNode(dk[src].text, dk[src].lines, dk[src].size,
                                      now,
                                      IF Exists(dk, dst) THEN dk[dst].ctime ELSE now))]

\* copy_dir_recursively(src, dst).  read_dir yields the children in an order
\* the file system chooses, and the first failure returns (the `?`), so the
\* result is a set of possible outcomes.
RECURSIVE CopyDirRecursively(_, _, _, _), CopyEntries(_, _, _, _, _)
CopyDirRecursively(dk, src, dst, now) ==
    LET made == CreateDirAll(dk, dst, now)
    IN  IF ~made.ok THEN {[ok |-> FALSE, dk |-> made.dk]}
        ELSE IF ~ReadDirOk(made.dk, src) THEN {[ok |-> FALSE, dk |-> made.dk]}
        ELSE CopyEntries(made.dk, Children(made.dk, src), src, dst, now)

CopyEntries(dk, todo, src, dst, now) ==
    IF todo = {} THEN {[ok |-> TRUE, dk |-> dk]}
    ELSE UNION {
           LET dst_path == Join(dst, FileName(path))
               rs == IF IsDir(dk, path)
                     THEN CopyDirRecursively(dk, path, dst_path, now)
                     ELSE {CopyFile(dk, path, dst_path, now)}
           IN  UNION {IF r.ok THEN CopyEntries(r.dk, todo \ {path}, src, dst, now)
                      ELSE {r} : r \in rs}
           : path \in todo}

\* fs::remove_file
RemoveFile(dk, p) ==
    IF IsFile(dk, p) THEN [ok |-> TRUE, dk |-> Without(dk, {p})]
    ELSE [ok |-> FALSE, dk |-> dk]

\* fs::remove_dir_all: opens the directory, removes the children in the
\* order read_dir yields them, stops at the first failure
RECURSIVE RemoveDirAll(_, _), RemoveEntries(_, _, _)
RemoveDirAll(dk, p) ==
    IF ~ReadDirOk(dk, p) THEN {[ok |-> FALSE, dk |-> dk]}
    ELSE RemoveEntries(dk, Children(dk, p), p)

RemoveEntries(dk, todo, p) ==
    IF todo = {} THEN {[ok |-> TRUE, dk |-> Without(dk, {p})]}
    ELSE UNION {
           LET rs == IF IsDir(dk, c) THEN RemoveDirAll(dk, c) ELSE {RemoveFile(dk, c)}
           IN  UNION {IF r.ok THEN RemoveEntries(r.dk, todo \ {c}, p) ELSE {r} : r \in rs}
           : c \in todo}

\* fs::rename(old, new), new = old.with_file_name(name): same parent
Rename(dk, old, new) ==
    LET fail == [ok |-> FALSE, dk |-> dk]
        moved == [q \in (((DOMAIN dk) \ Subtree(dk, old)) \ Subtree(dk, new))
                        \cup {new \o SubSeq(p, Len(old) + 1, Len(p)) : p \in Subtree(dk, old)}
                  |-> IF IsPrefix(new, q)
                      THEN dk[old \o SubSeq(q, Len(new) + 1, Len(q))]
                      ELSE dk[q]]
    IN  IF ~Exists(dk, old) THEN fail
        ELSE IF new = old THEN [ok |-> TRUE, dk |-> dk]
        ELSE IF ~HasFileName(new) \/ FileName(new) = <<>> THEN fail
        ELSE IF ~(IsDir(dk, Parent(new)) /\ dk[Parent(new)].access) THEN fail
        ELSE IF Exists(dk, new) /\ dk[new].kind # dk[old].kind THEN fail
        ELSE IF IsDir(dk, new) /\ Children(dk, new) # {} THEN fail
        ELSE [ok |-> TRUE, dk |-> moved]

----------------------------------------------------------------------------
(* Sequences *)

RECURSIVE SetToSeq(_)
SetToSeq(S) ==
    IF S = {} THEN <<>>
    ELSE LET x == CHOOSE y \in S : TRUE IN <<x>> \o SetToSeq(S \ {x})

\* every order in which a HashSet of the elements of S can be iterated
RECURSIVE Perms(_)
Perms(S) ==
    IF S = {} THEN {<<>>}
    ELSE UNION {{<<x>> \o t : t \in Perms(S \ {x})} : x \in S}

\* mutant of StableSort: an unstable sort, elements whose keys tie come out
\* in the reverse of their order
UnstableSort(seq, less) ==
    LET n == Len(seq)
        before(i) == {j \in 1..n : \/ less[j][i]
                                   \/ (~less[i][j] /\ j > i)}
    IN  [r \in 1..n |-> seq[CHOOSE i \in 1..n : Cardinality(before(i)) = r - 1]]

\* slice::sort_by / sort_by_key: a stable sort; less[i][j] says that the key
\* of seq[i] is strictly before that of seq[j], elements whose keys tie keep
\* their order
StableSort(seq, less) ==
    LET n == Len(seq)
        before(i) == {j \in 1..n : \/ less[j][i]
                                   \/ (~less[i][j] /\ j < i)}
    IN  [r \in 1..n |-> seq[CHOOSE i \in 1..n : Cardinality(before(i)) = r - 1]]

Min(a, b) == IF a <= b THEN a ELSE b
Max(a, b) == IF a >= b THEN a ELSE b

----------------------------------------------------------------------------
(* Pane (src/app.rs) *)

\* entries.sort_by_key(|e| e.file_name())
FileNameLess(a, b) == BytesLess(FileName(a), FileName(b))

SortedEntries(dk, dir) ==
    LET entries == SetToSeq(Children(dk, dir))
        n == Len(entries)
    IN  StableSort(entries, [i \in 1..n |-> [j \in 1..n |->
                                FileNameLess(entries[i], entries[j])]])

\* Pane::new
PaneNew(dk, path) ==
    [items |-> SortedEntries(dk, path), selected |-> 0,
     current_dir |-> path, marked |-> {}]

\* Pane::refresh: Err leaves the pane as it was
RefreshOk(pane, dk) == ReadDirOk(dk, pane.current_dir)

\* mutant of Refresh: the marks are not cleared
RefreshKeepsMarks(pane, dk) ==
    IF RefreshOk(pane, dk)
    THEN [pane EXCEPT !.items = SortedEntries(dk, pane.current_dir),
                      !.selected = 0]
    ELSE pane

Refresh(pane, dk) ==
    IF RefreshOk(pane, dk)
    THEN [pane EXCEPT !.items = SortedEntries(dk, pane.current_dir),
                      !.selected = 0,
                      !.marked = {}]
    ELSE pane

\* toggle_mark
ToggleMark(pane) ==
    IF pane.selected \in pane.marked
    THEN [pane EXCEPT !.marked = @ \ {pane.selected}]
    ELSE [pane EXCEPT !.marked = @ \cup {pane.selected}]

\* App::on_up, on the pane
OnUp(pane) ==
    IF pane.selected > 0 THEN [pane EXCEPT !.selected = @ - 1] ELSE pane

\* mutant of OnDown: no test against the length of the listing
OnDownUnguarded(pane) == [pane EXCEPT !.selected = @ + 1]

\* App::on_down, on the pane
OnDown(pane) ==
    IF pane.selected + 1 < Len(pane.items)
    THEN [pane EXCEPT !.selected = @ + 1] ELSE pane

\* for _ in 0..count { app.on_up() }
RECURSIVE OnUpTimes(_, _)
OnUpTimes(pane, count) ==
    IF count = 0 THEN pane ELSE OnUpTimes(OnUp(pane), count - 1)

\* for _ in 0..count { app.on_down() }
RECURSIVE OnDownTimes(_, _)
OnDownTimes(pane, count) ==
    IF count = 0 THEN pane ELSE OnDownTimes(OnDown(pane), count - 1)

\* pane.items.get(i) is Some
HasItem(pane, i) == i < Len(pane.items)
Item(pane, i) == pane.items[i + 1]

\* mutant of ResolveTargets: the marks are ignored
ResolveTargetsCursorOnly(pane) ==
    IF HasItem(pane, pane.selected)
    THEN {<<Item(pane, pane.selected)>>}
    ELSE {<<>>}

\* the targets of x, X and y: every order the HashSet may yield
ResolveTargets(pane) ==
    IF pane.marked # {}
    THEN {[n \in 1..Len(ord) |-> Item(pane, ord[n])] :
              ord \in Perms({i \in pane.marked : HasItem(pane, i)})}
    ELSE IF HasItem(pane, pane.selected)
         THEN {<<Item(pane, pane.selected)>>}
         ELSE {<<>>}

----------------------------------------------------------------------------
(* fs_utils.rs *)

\* Path::extension
Extension(name) ==
    LET dots == {i \in 2..Len(name) : name[i] = "."}
    IN  IF dots = {} THEN <<>>
        ELSE SubSeq(name, (CHOOSE i \in dots : \A j \in dots : j <= i) + 1, Len(name))

HasExtension(name) == {i \in 2..Len(name) : name[i] = "."} # {}

ImageExtensions ==
    { <<"p","n","g">>, <<"j","p","g">>, <<"j","p","e","g">>, <<"g","i","f">>,
      <<"b","m","p">>, <<"t","i","f","f">>, <<"t","i","f">>, <<"w","e","b","p">> }

\* is_image
IsImage(p) ==
    /\ HasFileName(p)
    /\ HasExtension(FileName(p))
    /\ ToLowercase(Extension(FileName(p))) \in ImageExtensions

\* mutant of FindMatch: the names are compared as they are written
FindMatchCaseSensitive(entries, query, start) ==
    IF query = <<>> \/ entries = <<>> THEN -1
    ELSE LET total == Len(entries)
             hit(i) == Contains(FileName(entries[((start + i) % total) + 1]), query)
             hits == {i \in 1..total : hit(i)}
         IN  IF hits = {} THEN -1
             ELSE (start + (CHOOSE i \in hits : \A j \in hits : i <= j)) % total

\* find_match: Some(idx) or None (as -1)
FindMatch(entries, query, start) ==
    IF query = <<>> \/ entries = <<>> THEN -1
    ELSE LET q == ToLowercase(query)
             total == Len(entries)
             hit(i) == Contains(ToLowercase(FileName(entries[((start + i) % total) + 1])), q)
             hits == {i \in 1..total : hit(i)}
         IN  IF hits = {} THEN -1
             ELSE (start + (CHOOSE i \in hits : \A j \in hits : i <= j)) % total

\* the sort keys, with their fallbacks
ModifiedKey(dk, p) == IF Exists(dk, p) THEN dk[p].mtime ELSE 0
CreatedKey(dk, p) == IF Exists(dk, p) THEN dk[p].ctime ELSE 0
SizeKey(dk, p) == IF Exists(dk, p) THEN dk[p].size ELSE 0
NameKey(p) == ToLowercase(FileName(p))

\* mutant of SortItems: Size sorts ascending
SortItemsSizeAscending(items, by, dk) ==
    LET modified(a, b) == ModifiedKey(dk, a) < ModifiedKey(dk, b)
        created(a, b) == CreatedKey(dk, a) < CreatedKey(dk, b)
        size(a, b) == SizeKey(dk, a) < SizeKey(dk, b)
        name(a, b) == BytesLess(NameKey(a), NameKey(b))
        n == Len(items)
        less(a, b) == CASE by = 0 -> modified(a, b)
                        [] by = 1 -> created(a, b)
                        [] by = 2 -> size(a, b)
                        [] OTHER  -> name(a, b)
    IN  StableSort(items, [i \in 1..n |-> [j \in 1..n |-> less(items[i], items[j])]])

\* apply_sort; by is the index into SORT_OPTIONS
SortItems(items, by, dk) ==
    LET modified(a, b) == ModifiedKey(dk, a) < ModifiedKey(dk, b)
        created(a, b) == CreatedKey(dk, a) < CreatedKey(dk, b)
        size(a, b) == SizeKey(dk, a) > SizeKey(dk, b)
        name(a, b) == BytesLess(NameKey(a), NameKey(b))
        n == Len(items)
        less(a, b) == CASE by = 0 -> modified(a, b)
                        [] by = 1 -> created(a, b)
                        [] by = 2 -> size(a, b)
                        [] OTHER  -> name(a, b)
    IN  StableSort(items, [i \in 1..n |-> [j \in 1..n |-> less(items[i], items[j])]])

\* mutant of ApplySort: cursor and marks are kept
ApplySortKeepsCursor(pane, by, dk) ==
    [pane EXCEPT !.items = SortItems(pane.items, by, dk)]

ApplySort(pane, by, dk) ==
    [pane EXCEPT !.items = SortItems(pane.items, by, dk),
                 !.selected = 0,
                 !.marked = {}]

----------------------------------------------------------------------------
(* The session and the event loop.  A handler works on a record s holding  *)
(* the session (disk, left, right, active, mode, clipboard), run_app's     *)
(* locals (prefix, last_key_g), its position (status, preview), and reload:*)
(* what the handler's call of Pane::refresh returned ("none" if it made    *)
(* none), and errs: the paths whose copy, removal or rename the handler    *)
(* reported as failed.  A handler yields the set of records it can end in. *)

NamedKeys == {"Enter", "Esc", "Backspace", "Up", "Down"}

\* KeyCode::Char(c)
IsChar(key) == key \in AllChars

U16Max == 65535
U16Mod == 65536

FilerMode == [tag |-> "Filer"]

\* App::current_pane_mut
Cur(s) == IF s.active = "Left" THEN s.left ELSE s.right

SetCur(s, pane) ==
    IF s.active = "Left" THEN [s EXCEPT !.left = pane] ELSE [s EXCEPT !.right = pane]

\* mutant of SwitchPane: the pane that becomes active has its cursor put
\* back on the first entry
SwitchPaneResetsCursor(s) ==
    IF s.active = "Left"
    THEN [s EXCEPT !.active = "Right", !.right.selected = 0]
    ELSE [s EXCEPT !.active = "Left", !.left.selected = 0]

\* App::switch_pane
SwitchPane(s) ==
    [s EXCEPT !.active = IF s.active = "Left" THEN "Right" ELSE "Left"]

\* let _ = pane.refresh(), on the current pane
RefreshCur(s) ==
    [SetCur(s, Refresh(Cur(s), s.disk))
        EXCEPT !.reload = IF RefreshOk(Cur(s), s.disk) THEN "ok" ELSE "failed"]

\* App::on_left
OnLeft(s) ==
    LET pane == Cur(s)
    IN  IF HasParent(pane.current_dir)
        THEN RefreshCur(SetCur(s, [pane EXCEPT !.current_dir = Parent(pane.current_dir)]))
        ELSE s

\* fs::read_to_string(path) is Ok
ReadToStringOk(dk, path) == IsFile(dk, path) /\ dk[path].access /\ dk[path].text

\* mutant of OnEnter: a file that is not text is opened in the viewer as well
OnEnterOpensAnyFile(s) ==
    LET pane == Cur(s)
        path == Item(pane, pane.selected)
    IN  IF ~HasItem(pane, pane.selected) THEN s
        ELSE IF IsDir(s.disk, path)
             THEN RefreshCur(SetCur(s, [pane EXCEPT !.current_dir = path]))
        ELSE IF IsFile(s.disk, path)
             THEN [s EXCEPT !.mode = [tag |-> "Viewer", lines |-> s.disk[path].lines,
                                      title |-> FileName(path), offset |-> 0]]
        ELSE s

\* App::on_enter
OnEnter(s) ==
    LET pane == Cur(s)
        path == Item(pane, pane.selected)
    IN  IF ~HasItem(pane, pane.selected) THEN s
        ELSE IF IsDir(s.disk, path)
             THEN RefreshCur(SetCur(s, [pane EXCEPT !.current_dir = path]))
        ELSE IF ReadToStringOk(s.disk, path)
             THEN [s EXCEPT !.mode = [tag |-> "Viewer", lines |-> s.disk[path].lines,
                                      title |-> FileName(path), offset |-> 0]]
        ELSE s

\* mutant of CopySelection: the targets are appended to the clipboard
CopySelectionAppends(s) ==
    {[SetCur(s, [Cur(s) EXCEPT !.marked = {}]) EXCEPT !.clipboard = s.clipboard \o items] :
        items \in ResolveTargets(Cur(s))}

\* copy_selection
CopySelection(s) ==
    {[SetCur(s, [Cur(s) EXCEPT !.marked = {}]) EXCEPT !.clipboard = items] :
        items \in ResolveTargets(Cur(s))}

\* the loop of paste over the clipboard: the disks it can leave, each with
\* the sources whose copy returned Err (the eprintln! reports)
RECURSIVE PasteItems(_, _, _, _)
PasteItems(dk, items, dst_dir, now) ==
    IF items = <<>> THEN {[dk |-> dk, errs |-> {}]}
    ELSE LET src == Head(items)
             dst == Join(dst_dir, FileName(src))
             rs == IF IsDir(dk, src) THEN CopyDirRecursively(dk, src, dst, now)
                   ELSE {CopyFile(dk, src, dst, now)}
         IN  IF ~HasFileName(src) THEN PasteItems(dk, Tail(items), dst_dir, now)
             ELSE UNION {{[dk |-> rest.dk,
                           errs |-> IF r.ok THEN rest.errs ELSE rest.errs \cup {src}] :
                              rest \in PasteItems(r.dk, Tail(items), dst_dir, now)} :
                         r \in rs}

\* mutant of Paste: the clipboard is emptied by the paste
PasteConsumes(s) ==
    {RefreshCur([s EXCEPT !.disk = r.dk, !.errs = r.errs, !.clipboard = <<>>]) :
        r \in PasteItems(s.disk, s.clipboard, Cur(s).current_dir, Now(s.disk))}

\* paste
Paste(s) ==
    {RefreshCur([s EXCEPT !.disk = r.dk, !.errs = r.errs]) :
        r \in PasteItems(s.disk, s.clipboard, Cur(s).current_dir, Now(s.disk))}

\* mutant of DeletePaths: the first removal that fails ends the loop
RECURSIVE DeletePathsStopAtError(_, _)
DeletePathsStopAtError(dk, items) ==
    IF items = <<>> THEN {[dk |-> dk, errs |-> {}]}
    ELSE LET path == Head(items)
             rs == IF IsDir(dk, path) THEN RemoveDirAll(dk, path)
                   ELSE {RemoveFile(dk, path)}
         IN  UNION {IF r.ok
                    THEN DeletePathsStopAtError(r.dk, Tail(items))
                    ELSE {[dk |-> r.dk, errs |-> {path}]} :
                    r \in rs}

\* the loop of delete_items: the disks it can leave, each with the paths
\* whose removal returned Err (the eprintln! reports)
RECURSIVE DeletePaths(_, _)
DeletePaths(dk, items) ==
    IF items = <<>> THEN {[dk |-> dk, errs |-> {}]}
    ELSE LET path == Head(items)
             rs == IF IsDir(dk, path) THEN RemoveDirAll(dk, path)
                   ELSE {RemoveFile(dk, path)}
         IN  UNION {{[dk |-> rest.dk,
                      errs |-> IF r.ok THEN rest.errs ELSE rest.errs \cup {path}] :
                         rest \in DeletePaths(r.dk, Tail(items))} :
                    r \in rs}

\* mutant of DeleteItems: both panes are reloaded
DeleteItemsReloadsBoth(s, items) ==
    {LET t == RefreshCur([s EXCEPT !.disk = r.dk, !.errs = r.errs])
     IN  [t EXCEPT !.left = Refresh(t.left, t.disk), !.right = Refresh(t.right, t.disk)] :
        r \in DeletePaths(s.disk, items)}

\* delete_items
DeleteItems(s, items) ==
    {RefreshCur([s EXCEPT !.disk = r.dk, !.errs = r.errs]) :
        r \in DeletePaths(s.disk, items)}

\* numeric prefix: the key is a digit that accumulates (the saturation at
\* usize::MAX lies beyond every count the key source types)
IsPrefixDigit(s, key) ==
    IsChar(key) /\ s.mode.tag \in {"Filer", "Viewer"} /\ IsAsciiDigit(key)

PrefixStep(s, key) == [s EXCEPT !.prefix = s.prefix * 10 + ToDigit(key)]

\* mutant of CountOf: the pending count is ignored
CountAlwaysOne(pfx) == 1

\* let count = if prefix > 0 { prefix } else { 1 }
CountOf(pfx) == IF pfx > 0 THEN pfx ELSE 1

\* 'g': second of two arms the jump, first arms the flag
KeySmallG(s) ==
    IF s.last_key_g
    THEN LET t == [s EXCEPT !.last_key_g = FALSE]
         IN  CASE s.mode.tag = "Filer" -> SetCur(t, [Cur(t) EXCEPT !.selected = 0])
               [] s.mode.tag = "Viewer" -> [t EXCEPT !.mode.offset = 0]
               [] OTHER -> t
    ELSE [s EXCEPT !.last_key_g = TRUE]

\* usize::saturating_sub(1)
SatPred(n) == IF n = 0 THEN 0 ELSE n - 1

\* 'G'
KeyBigG(s) ==
    LET t == [s EXCEPT !.last_key_g = FALSE]
    IN  CASE s.mode.tag = "Filer" ->
               SetCur(t, [Cur(t) EXCEPT !.selected = SatPred(Len(Cur(t).items))])
          [] s.mode.tag = "Viewer" ->
               [t EXCEPT !.mode.offset = SatPred(s.mode.lines) % U16Mod]
          [] OTHER -> t

\* mutant of VisualRange: anchor and cursor are not ordered
VisualRangeForward(anchor, end) == anchor..end

\* the marks of a Visual step: lo..=hi between anchor and the cursor
VisualRange(anchor, end) ==
    IF anchor <= end THEN anchor..end ELSE end..anchor

\* Visual mode's match on the key
VisualBlock(s, key, count) ==
    LET anchor == s.mode.anchor
        mark(pane) == [pane EXCEPT !.marked = VisualRange(anchor, pane.selected)]
    IN  CASE key = "j" -> SetCur(s, mark(OnDownTimes(Cur(s), count)))
          [] key = "k" -> SetCur(s, mark(OnUpTimes(Cur(s), count)))
          [] key \in {"V", "Esc"} -> [s EXCEPT !.mode = FilerMode]
          [] OTHER -> s

\* String::pop
Pop(str) == IF str = <<>> THEN str ELSE SubSeq(str, 1, Len(str) - 1)

\* Search mode's match on the key
SearchBlock(s, key) ==
    IF s.mode.tag # "Search" THEN s
    ELSE CASE IsChar(key) -> [s EXCEPT !.mode.query = Append(@, key)]
           [] key = "Backspace" -> [s EXCEPT !.mode.query = Pop(@)]
           [] key \in {"Enter", "Esc"} -> [s EXCEPT !.mode = FilerMode]
           [] OTHER -> s

\* the jump made while the mode is still Search
SearchJump(s) ==
    LET pane == Cur(s)
        idx == FindMatch(pane.items, s.mode.query, pane.selected)
    IN  IF idx # -1 THEN SetCur(s, [pane EXCEPT !.selected = idx]) ELSE s

\* mutant of RenameBlock: Backspace also moves the cursor down
RenameBlockMovesCursor(s, key) ==
    IF s.mode.tag # "Rename" THEN s
    ELSE CASE IsChar(key) -> [s EXCEPT !.mode.buffer = Append(@, key)]
           [] key = "Backspace" ->
                [SetCur(s, OnDown(Cur(s))) EXCEPT !.mode.buffer = Pop(@)]
           [] key \in {"Enter", "Esc"} -> [s EXCEPT !.mode = FilerMode]
           [] OTHER -> s

\* Rename mode's match on the key
RenameBlock(s, key) ==
    IF s.mode.tag # "Rename" THEN s
    ELSE CASE IsChar(key) -> [s EXCEPT !.mode.buffer = Append(@, key)]
           [] key = "Backspace" -> [s EXCEPT !.mode.buffer = Pop(@)]
           [] key \in {"Enter", "Esc"} -> [s EXCEPT !.mode = FilerMode]
           [] OTHER -> s

\* rename_target is Some
RenameCommits(s, key) == s.mode.tag = "Rename" /\ key = "Enter"

SortOptionsLen == 4

\* mutant of SortBlock: the highlight stops at the ends of the list
SortBlockNoWrap(s, key) ==
    IF s.mode.tag # "Sort" THEN s
    ELSE CASE key \in {"Down", "j"} ->
                [s EXCEPT !.mode.selected = Min(@ + 1, SortOptionsLen - 1)]
           [] key \in {"Up", "k"} ->
                [s EXCEPT !.mode.selected = Max(@ - 1, 0)]
           [] key \in {"Enter", "Esc"} -> [s EXCEPT !.mode = FilerMode]
           [] OTHER -> s

\* Sort mode's match on the key
SortBlock(s, key) ==
    IF s.mode.tag # "Sort" THEN s
    ELSE CASE key \in {"Down", "j"} ->
                [s EXCEPT !.mode.selected = (@ + 1) % SortOptionsLen]
           [] key \in {"Up", "k"} ->
                [s EXCEPT !.mode.selected = (@ + SortOptionsLen - 1) % SortOptionsLen]
           [] key \in {"Enter", "Esc"} -> [s EXCEPT !.mode = FilerMode]
           [] OTHER -> s

\* sort_choice is Some
SortCommits(s, key) == s.mode.tag = "Sort" /\ key = "Enter"

\* Path::with_file_name
WithFileName(path, name) == Join(Parent(path), name)

\* mutant of CommitRename: the cursor is left where the reload put it
CommitRenameNoReselect(s, new_name) ==
    LET pane == Cur(s)
        old == Item(pane, pane.selected)
        newp == WithFileName(old, new_name)
        r == Rename(s.disk, old, newp)
    IN  IF ~HasItem(pane, pane.selected) THEN [s EXCEPT !.status = "panicked"]
        ELSE RefreshCur([s EXCEPT !.disk = r.dk,
                                  !.errs = IF r.ok THEN {} ELSE {old}])

\* mutant of CommitRename: a rename that fails ends run_app with the error
CommitRenamePropagates(s, new_name) ==
    LET pane == Cur(s)
        old == Item(pane, pane.selected)
        newp == WithFileName(old, new_name)
        r == Rename(s.disk, old, newp)
        t == RefreshCur([s EXCEPT !.disk = r.dk,
                                  !.errs = IF r.ok THEN {} ELSE {old}])
        found == {i \in 0..(Len(Cur(t).items) - 1) : FileName(Item(Cur(t), i)) = new_name}
        pos == CHOOSE i \in found : \A j \in found : i <= j
    IN  IF ~HasItem(pane, pane.selected) THEN [s EXCEPT !.status = "panicked"]
        ELSE IF ~r.ok THEN [s EXCEPT !.status = "failed", !.errs = {old}]
        ELSE IF t.reload = "ok" /\ found # {}
             THEN SetCur(t, [Cur(t) EXCEPT !.selected = pos])
        ELSE t

\* the commit of a rename; pane.items[pane.selected] panics out of bounds
CommitRename(s, new_name) ==
    LET pane == Cur(s)
        old == Item(pane, pane.selected)
        newp == WithFileName(old, new_name)
        r == Rename(s.disk, old, newp)
        t == RefreshCur([s EXCEPT !.disk = r.dk,
                                  !.errs = IF r.ok THEN {} ELSE {old}])
        found == {i \in 0..(Len(Cur(t).items) - 1) : FileName(Item(Cur(t), i)) = new_name}
        pos == CHOOSE i \in found : \A j \in found : i <= j
    IN  IF ~HasItem(pane, pane.selected) THEN [s EXCEPT !.status = "panicked"]
        ELSE IF t.reload = "ok" /\ found # {}
             THEN SetCur(t, [Cur(t) EXCEPT !.selected = pos])
        ELSE t

\* the commit of a sort
CommitSort(s, by) == SetCur(s, ApplySort(Cur(s), by, s.disk))

\* u16::saturating_add / saturating_sub of `count as u16`
ScrollDown(offset, count) == Min(offset + (count % U16Mod), U16Max)
ScrollUp(offset, count) ==
    IF offset >= count % U16Mod THEN offset - (count % U16Mod) ELSE 0

\* the Enter key's image test: src/main.rs also asks for a regular file
IsImageEntry(s, path) ==
    IF s.build = "main" THEN IsFile(s.disk, path) /\ IsImage(path) ELSE IsImage(path)

\* mutant of ConfirmDeleteMatch: the cancel reloads the pane
ConfirmDeleteCancelReloads(s, key) ==
    CASE key \in {"y", "Enter"} ->
           DeleteItems([s EXCEPT !.mode = FilerMode], s.mode.items)
      [] key \in {"n", "Esc"} -> {RefreshCur([s EXCEPT !.mode = FilerMode])}
      [] OTHER -> {s}

\* mutant of ConfirmDeleteMatch: a key the mode does not bind takes the
\* targets anew from the pane
ConfirmDeleteRetargets(s, key) ==
    CASE key \in {"y", "Enter"} ->
           DeleteItems([s EXCEPT !.mode = FilerMode], s.mode.items)
      [] key \in {"n", "Esc"} -> {[s EXCEPT !.mode = FilerMode]}
      [] OTHER -> {[SetCur(s, OnDown(Cur(s))) EXCEPT !.mode.items = <<>>]}

\* the final match's arm for Mode::ConfirmDelete
ConfirmDeleteMatch(s, key) ==
    CASE key \in {"y", "Enter"} ->
           DeleteItems([s EXCEPT !.mode = FilerMode], s.mode.items)
      [] key \in {"n", "Esc"} -> {[s EXCEPT !.mode = FilerMode]}
      [] OTHER -> {s}

\* the final match on the mode
FinalMatch(s, key, count) ==
    CASE s.mode.tag = "ConfirmDelete" -> ConfirmDeleteMatch(s, key)
      [] s.mode.tag = "Viewer" ->
           (CASE key = "j" -> {[s EXCEPT !.mode.offset = ScrollDown(@, count)]}
              [] key = "k" -> {[s EXCEPT !.mode.offset = ScrollUp(@, count)]}
              [] key = "Enter" -> {[s EXCEPT !.mode = FilerMode]}
              [] OTHER -> {s})
      [] s.mode.tag = "Filer" ->
           (CASE key = "j" -> {SetCur(s, OnDownTimes(Cur(s), count))}
              [] key = "k" -> {SetCur(s, OnUpTimes(Cur(s), count))}
              [] key = "x" ->
                   {[s EXCEPT !.mode = [tag |-> "ConfirmDelete", items |-> items]] :
                        items \in ResolveTargets(Cur(s))}
              [] key = "X" ->
                   UNION {DeleteItems(s, items) : items \in ResolveTargets(Cur(s))}
              [] key = "Enter" ->
                   IF /\ HasItem(Cur(s), Cur(s).selected)
                      /\ IsImageEntry(s, Item(Cur(s), Cur(s).selected))
                   THEN {[SwitchPane(s) EXCEPT !.preview = TRUE]}
                   ELSE {OnEnter(s)}
              [] key = "h" -> {IF s.active = "Left" THEN OnLeft(s) ELSE SwitchPane(s)}
              [] key = "l" -> {IF s.active = "Left" THEN SwitchPane(s) ELSE OnLeft(s)}
              [] key = "V" ->
                   {[SetCur(s, [Cur(s) EXCEPT !.marked = {Cur(s).selected}])
                        EXCEPT !.mode = [tag |-> "Visual", anchor |-> Cur(s).selected]]}
              [] key = "/" -> {[s EXCEPT !.mode = [tag |-> "Search", query |-> <<>>]]}
              [] key = "r" ->
                   {IF HasItem(Cur(s), Cur(s).selected)
                    THEN LET name == FileName(Item(Cur(s), Cur(s).selected))
                         IN  [s EXCEPT !.mode = [tag |-> "Rename", original |-> name,
                                                 buffer |-> name]]
                    ELSE s}
              [] key = "s" -> {[s EXCEPT !.mode = [tag |-> "Sort", selected |-> 0]]}
              [] key = "v" -> {SetCur(s, ToggleMark(Cur(s)))}
              [] key = "y" -> CopySelection(s)
              [] key = "p" -> Paste(s)
              [] OTHER -> {s})
      [] OTHER -> {s}

\* from the Search block to the end of the loop body
AfterVisual(s, key, count) ==
    LET s1 == SearchBlock(s, key)
        s2 == RenameBlock(s1, key)
        s3 == SortBlock(s2, key)
    IN  IF s1.mode.tag = "Search" THEN {SearchJump(s1)}
        ELSE IF RenameCommits(s1, key) THEN {CommitRename(s3, s1.mode.buffer)}
        ELSE IF SortCommits(s2, key) THEN {CommitSort(s3, s2.mode.selected)}
        ELSE FinalMatch(s3, key, count)

\* from the Visual block on: src/input.rs ends the iteration after the
\* block (`continue`), src/main.rs goes on with the mode the block left
FromVisual(s, key, count) ==
    IF s.mode.tag = "Visual"
    THEN IF s.build = "input" THEN {VisualBlock(s, key, count)}
         ELSE AfterVisual(VisualBlock(s, key, count), key, count)
    ELSE AfterVisual(s, key, count)

\* mutant of HandleKey: in Search and Rename mode 'q' is a typed character
HandleKeyTypesQ(s, key) ==
    IF key = "q" /\ s.mode.tag \notin {"Search", "Rename"}
    THEN {[s EXCEPT !.status = "quit"]}
    ELSE IF IsPrefixDigit(s, key) THEN {PrefixStep(s, key)}
    ELSE LET count == CountOf(s.prefix)
             t == [s EXCEPT !.prefix = 0]
         IN  IF key = "g" THEN {KeySmallG(t)}
             ELSE IF key = "G" THEN {KeyBigG(t)}
             ELSE FromVisual(IF IsChar(key) THEN [t EXCEPT !.last_key_g = FALSE] ELSE t,
                             key, count)

\* one iteration of run_app's loop on a key event
HandleKey(s, key) ==
    IF key = "q" THEN {[s EXCEPT !.status = "quit"]}
    ELSE IF IsPrefixDigit(s, key) THEN {PrefixStep(s, key)}
    ELSE LET count == CountOf(s.prefix)
             t == [s EXCEPT !.prefix = 0]
         IN  IF key = "g" THEN {KeySmallG(t)}
             ELSE IF key = "G" THEN {KeyBigG(t)}
             ELSE FromVisual(IF IsChar(key) THEN [t EXCEPT !.last_key_g = FALSE] ELSE t,
                             key, count)

----------------------------------------------------------------------------
(* The initial disk and the key source *)

Cwd == << <<"d">> >>

\* the disk the program is started on, in directory /d:
\*   /u          a directory the process may not open
\*   /d/B        a text file of three lines
\*   /d/a        a directory holding the binary file c
\*   /d/i.png    an image
InitDisk ==
    (Root :> DirNode(TRUE, 1, 1))
    @@ (<< <<"d">> >> :> DirNode(TRUE, 1, 1))
    @@ (<< <<"u">> >> :> DirNode(FALSE, 1, 1))
    @@ (<< <<"d">>, <<"B">> >> :> FileNode(TRUE, 3, 2, 2, 1))
    @@ (<< <<"d">>, <<"a">> >> :> DirNode(TRUE, 3, 3))
    @@ (<< <<"d">>, <<"a">>, <<"c">> >> :> FileNode(FALSE, 0, 1, 3, 3))
    @@ (<< <<"d">>, <<"i", ".", "p", "n", "g">> >> :> FileNode(FALSE, 0, 2, 1, 2))

\* the digits the key source types
Digits == {"0", "2"}

\* the characters the key source types into a query or a rename buffer
TypedChars == {"a", "b", "B"}

\* the keys the key source sends in each mode: the keys the mode binds,
\* Enter and Esc, and one character the mode does not bind
ModeKeys(tag) ==
    CASE tag = "Filer" -> {"j", "k", "x", "X", "h", "l", "V", "/", "r", "s", "v",
                           "y", "p", "n", "Enter", "Esc"}
      [] tag = "Visual" -> {"j", "k", "V", "y", "Enter", "Esc"}
      [] tag = "Search" -> TypedChars \cup {"Backspace", "Enter", "Esc"}
      [] tag = "Rename" -> TypedChars \cup {"Backspace", "Enter", "Esc"}
      [] tag = "Sort" -> {"j", "k", "Up", "Down", "x", "Enter", "Esc"}
      [] tag = "ConfirmDelete" -> {"y", "n", "j", "Enter", "Esc"}
      [] tag = "Viewer" -> {"j", "k", "x", "Enter", "Esc"}

Keys == {"q", "g", "G"} \cup Digits \cup ModeKeys(mode.tag)

\* the handler of the key may write to the disk
MayWrite(key) ==
    \/ mode.tag = "Filer" /\ key \in {"p", "X"}
    \/ mode.tag = "ConfirmDelete" /\ key \in {"y", "Enter"}
    \/ mode.tag = "Rename" /\ key = "Enter"

\* the key source may send the key in the current state: within the bounds
Offered(key) ==
    /\ key \in Keys
    /\ (IsChar(key) /\ IsAsciiDigit(key)) =>
           /\ mode.tag \in {"Filer", "Viewer"}
           /\ prefix * 10 + ToDigit(key) <= MaxPrefix
    /\ (mode.tag = "Search" /\ key \notin {"q", "g", "G"} /\ IsChar(key)) =>
           key \in TypedChars /\ Len(mode.query) < MaxBuf
    /\ (mode.tag = "Rename" /\ key \notin {"q", "g", "G"} /\ IsChar(key)) =>
           key \in TypedChars /\ Len(mode.buffer) < MaxBuf
    /\ (mode.tag = "Viewer" /\ key = "j") =>
           mode.offset + CountOf(prefix) <= MaxOffset
    /\ MayWrite(key) => fsops < MaxFsOps

\* the session as a record
Session ==
    [disk |-> disk, left |-> left, right |-> right, active |-> active,
     mode |-> mode, clipboard |-> clipboard, prefix |-> prefix,
     last_key_g |-> last_key_g, status |-> status, preview |-> preview,
     build |-> build, reload |-> "none", errs |-> {}]

\* no call of copy_dir_recursively is in progress
NoCopy == [status |-> "idle", stack |-> <<>>]

\* App::new, and run_app's locals
Init ==
    /\ disk = InitDisk
    /\ left = PaneNew(InitDisk, Cwd)
    /\ right = PaneNew(InitDisk, Cwd)
    /\ active = "Left"
    /\ mode = FilerMode
    /\ clipboard = <<>>
    /\ prefix = 0
    /\ last_key_g = FALSE
    /\ status = "running"
    /\ preview = FALSE
    /\ build \in {"main", "input"}
    /\ last = [key |-> "none", from |-> "Filer", count |-> 1, reload |-> "none",
               errs |-> {}]
    /\ fsops = 0
    /\ nkeys = 0
    /\ copy = NoCopy

\* the loop body run on one key event
Run(key) ==
    /\ status = "running"
    /\ ~preview
    /\ \E t \in HandleKey(Session, key) :
          /\ disk' = t.disk
          /\ left' = t.left
          /\ right' = t.right
          /\ active' = t.active
          /\ mode' = t.mode
          /\ clipboard' = t.clipboard
          /\ prefix' = t.prefix
          /\ last_key_g' = t.last_key_g
          /\ status' = t.status
          /\ preview' = t.preview
          /\ last' = [key |-> key, from |-> mode.tag, count |-> CountOf(prefix),
                      reload |-> t.reload, errs |-> t.errs]
          /\ fsops' = IF t.disk # disk THEN fsops + 1 ELSE fsops
    /\ nkeys' = nkeys + 1
    /\ UNCHANGED <<build, copy>>

\* the loop body run on a key event the key source may send
Handle(key) == Offered(key) /\ Run(key)

\* a key event of the full key source
Step(key) == nkeys < MaxKeys /\ Handle(key)

\* 'q'
Quit == Step("q")

\* a digit in Filer or Viewer mode
PrefixDigit == \E key \in Digits : Step(key)

\* 'g'
SmallG == Step("g")

\* 'G'
BigG == Step("G")

\* a key in Visual mode
VisualKey == mode.tag = "Visual" /\ \E key \in ModeKeys("Visual") : Step(key)

\* a key in Search mode
SearchKey == mode.tag = "Search" /\ \E key \in ModeKeys("Search") : Step(key)

\* a key in Rename mode
RenameKey == mode.tag = "Rename" /\ \E key \in ModeKeys("Rename") : Step(key)

\* a key in Sort mode
SortKey == mode.tag = "Sort" /\ \E key \in ModeKeys("Sort") : Step(key)

\* a key in ConfirmDelete mode
ConfirmDeleteKey == mode.tag = "ConfirmDelete" /\ \E key \in ModeKeys("ConfirmDelete") : Step(key)

\* a key in Viewer mode
ViewerKey == mode.tag = "Viewer" /\ \E key \in ModeKeys("Viewer") : Step(key)

\* the keys of Filer mode
FilerMove == mode.tag = "Filer" /\ \E key \in {"j", "k"} : Step(key)
FilerAskDelete == mode.tag = "Filer" /\ Step("x")
FilerDeleteNow == mode.tag = "Filer" /\ Step("X")
FilerEnter == mode.tag = "Filer" /\ Step("Enter")
FilerH == mode.tag = "Filer" /\ Step("h")
FilerL == mode.tag = "Filer" /\ Step("l")
FilerVisual == mode.tag = "Filer" /\ Step("V")
FilerSearch == mode.tag = "Filer" /\ Step("/")
FilerRename == mode.tag = "Filer" /\ Step("r")
FilerSort == mode.tag = "Filer" /\ Step("s")
FilerMark == mode.tag = "Filer" /\ Step("v")
FilerCopy == mode.tag = "Filer" /\ Step("y")
FilerPaste == mode.tag = "Filer" /\ Step("p")
FilerUnbound == mode.tag = "Filer" /\ \E key \in {"n", "Esc"} : Step(key)

\* a key event read by show_image's loop: Enter ends it, any other key
\* (also 'q') is dropped
PreviewRead ==
    /\ status = "running"
    /\ preview
    /\ \E key \in {"Enter", "q", "j"} :
          /\ preview' = (key # "Enter")
          /\ last' = [key |-> key, from |-> "Preview", count |-> 1, reload |-> "none",
                      errs |-> {}]
    /\ nkeys' = nkeys + 1
    /\ UNCHANGED <<disk, left, right, active, mode, clipboard, prefix, last_key_g,
                   status, build, fsops, copy>>

PreviewKey == nkeys < MaxKeys /\ PreviewRead

Next ==
    \/ Quit
    \/ PrefixDigit
    \/ SmallG
    \/ BigG
    \/ VisualKey
    \/ SearchKey
    \/ RenameKey
    \/ SortKey
    \/ ConfirmDeleteKey
    \/ ViewerKey
    \/ FilerMove
    \/ FilerAskDelete
    \/ FilerDeleteNow
    \/ FilerEnter
    \/ FilerH
    \/ FilerL
    \/ FilerVisual
    \/ FilerSearch
    \/ FilerRename
    \/ FilerSort
    \/ FilerMark
    \/ FilerCopy
    \/ FilerPaste
    \/ FilerUnbound
    \/ PreviewKey

Spec == Init /\ [][Next]_vars

----------------------------------------------------------------------------
(* The file-operation key source: only the keys that mark, move, copy,     *)
(* paste, delete and change directory, in longer behaviours.               *)

OpsStep(key) ==
    /\ nkeys < MaxOpsKeys
    /\ MayWrite(key) => fsops < MaxOpsWrites
    /\ Handle(key)

\* 'v' in Filer mode
OpsMark == mode.tag = "Filer" /\ OpsStep("v")
\* 'j' in Filer mode
OpsDown == mode.tag = "Filer" /\ OpsStep("j")
\* 'y' in Filer mode
OpsCopy == mode.tag = "Filer" /\ OpsStep("y")
\* 'p' in Filer mode
OpsPaste == mode.tag = "Filer" /\ OpsStep("p")
\* 'h' in Filer mode
OpsLeft == mode.tag = "Filer" /\ OpsStep("h")
\* 'x' in Filer mode
OpsAskDelete == mode.tag = "Filer" /\ OpsStep("x")
\* Enter in Filer mode
OpsEnter == mode.tag = "Filer" /\ OpsStep("Enter")
\* 'y' in ConfirmDelete mode
OpsConfirm == mode.tag = "ConfirmDelete" /\ OpsStep("y")
\* Enter in Viewer mode
OpsClose == mode.tag = "Viewer" /\ OpsStep("Enter")

NextOps ==
    \/ OpsMark
    \/ OpsDown
    \/ OpsCopy
    \/ OpsPaste
    \/ OpsLeft
    \/ OpsAskDelete
    \/ OpsEnter
    \/ OpsConfirm
    \/ OpsClose

SpecOps == Init /\ [][NextOps]_vars

----------------------------------------------------------------------------
(* The navigation key source: the keys that move the cursor, change pane   *)
(* and directory, open an entry and delete at once, in longer behaviours.  *)

NavStep(key) ==
    /\ nkeys < MaxNavKeys
    /\ MayWrite(key) => fsops < MaxNavWrites
    /\ Handle(key)

\* 'G' in Filer mode
NavBottom == mode.tag = "Filer" /\ NavStep("G")
\* 'j' in Filer mode
NavDown == mode.tag = "Filer" /\ NavStep("j")
\* 'h' in Filer mode
NavLeft == mode.tag = "Filer" /\ NavStep("h")
\* 'l' in Filer mode
NavRight == mode.tag = "Filer" /\ NavStep("l")
\* 'X' in Filer mode
NavDeleteNow == mode.tag = "Filer" /\ NavStep("X")
\* Enter in Filer mode
NavEnter == mode.tag = "Filer" /\ NavStep("Enter")
\* Enter in Viewer mode
NavClose == mode.tag = "Viewer" /\ NavStep("Enter")
\* a key read by show_image
NavPreview == nkeys < MaxNavKeys /\ PreviewRead

NextNav ==
    \/ NavBottom
    \/ NavDown
    \/ NavLeft
    \/ NavRight
    \/ NavDeleteNow
    \/ NavEnter
    \/ NavClose
    \/ NavPreview

SpecNav == Init /\ [][NextNav]_vars

----------------------------------------------------------------------------
(* The sort key source: the keys that pick and commit a sort criterion,    *)
(* change pane, move the cursor down and delete at once, in longer         *)
(* behaviours.                                                             *)

SortStep(key) ==
    /\ nkeys < MaxSortKeys
    /\ MayWrite(key) => fsops < MaxSortWrites
    /\ Handle(key)

\* 's' in Filer mode
SrtOpen == mode.tag = "Filer" /\ SortStep("s")
\* 'l' in Filer mode
SrtRight == mode.tag = "Filer" /\ SortStep("l")
\* 'j' in Filer mode
SrtDown == mode.tag = "Filer" /\ SortStep("j")
\* 'X' in Filer mode
SrtDeleteNow == mode.tag = "Filer" /\ SortStep("X")
\* 'j' in Sort mode
SrtNext == mode.tag = "Sort" /\ SortStep("j")
\* 'k' in Sort mode
SrtPrev == mode.tag = "Sort" /\ SortStep("k")
\* Enter in Sort mode
SrtCommit == mode.tag = "Sort" /\ SortStep("Enter")

NextSort ==
    \/ SrtOpen
    \/ SrtRight
    \/ SrtDown
    \/ SrtDeleteNow
    \/ SrtNext
    \/ SrtPrev
    \/ SrtCommit

SpecSort == Init /\ [][NextSort]_vars

----------------------------------------------------------------------------
(* copy_dir_recursively run frame by frame.  A frame is one activation:    *)
(* src, dst, where it stands ("create": before create_dir_all and          *)
(* read_dir; "loop": in the for loop) and the entries the loop has still   *)
(* to visit.  paste calls it with a clipboard path that is a directory and *)
(* the current_dir of the active pane.                                     *)

\* the directories a paste can find on the clipboard
CopySources == {p \in DOMAIN disk : IsDir(disk, p) /\ HasFileName(p)}

\* the directories the active pane can be in
CopyTargets == {p \in DOMAIN disk : IsDir(disk, p)}

\* the frame on top of the stack
Top == copy.stack[Len(copy.stack)]

\* mutant of Rest: the iterator yields the same entry again
RestYieldsAgain(todo, path) == todo

\* the entries the iterator of read_dir has still to yield after path
Rest(todo, path) == todo \ {path}

\* what a step of the copy leaves alone
CopyFrame ==
    UNCHANGED <<left, right, active, mode, clipboard, prefix, last_key_g, status,
                preview, build, last, fsops, nkeys>>

\* an Err carried by `?` through every frame to paste
CopyFails(dk) ==
    /\ disk' = dk
    /\ copy' = [copy EXCEPT !.status = "failed", !.stack = <<>>]

\* paste calls copy_dir_recursively(src, dst_dir.join(file_name))
CopyCall ==
    /\ status = "running" /\ ~preview
    /\ copy.status = "idle"
    /\ \E src \in CopySources, dir \in CopyTargets :
          copy' = [status |-> "running",
                   stack |-> << [src |-> src, dst |-> Join(dir, FileName(src)),
                                 pc |-> "create", todo |-> {}] >>,
                   src |-> src, dst |-> Join(dir, FileName(src)),
                   from |-> disk, now |-> Now(disk)]
    /\ UNCHANGED disk
    /\ CopyFrame

\* fs::create_dir_all(dst)?; fs::read_dir(src)?
CopyCreate ==
    /\ copy.status = "running" /\ Top.pc = "create"
    /\ LET made == CreateDirAll(disk, Top.dst, copy.now)
       IN  IF ~made.ok \/ ~ReadDirOk(made.dk, Top.src)
           THEN CopyFails(made.dk)
           ELSE /\ disk' = made.dk
                /\ copy' = [copy EXCEPT !.stack[Len(copy.stack)] =
                               [@ EXCEPT !.pc = "loop",
                                         !.todo = Children(made.dk, Top.src)]]
    /\ CopyFrame

\* the loop on an entry that is no directory: fs::copy(&path, &dst_path)?
CopyEntryFile ==
    /\ copy.status = "running" /\ Top.pc = "loop"
    /\ \E path \in Top.todo :
          /\ ~IsDir(disk, path)
          /\ LET r == CopyFile(disk, path, Join(Top.dst, FileName(path)), copy.now)
             IN  IF r.ok
                 THEN /\ disk' = r.dk
                      /\ copy' = [copy EXCEPT !.stack[Len(copy.stack)].todo =
                                     Rest(Top.todo, path)]
                 ELSE CopyFails(r.dk)
    /\ CopyFrame

\* the loop on a directory: copy_dir_recursively(&path, &dst_path)
CopyEntryDir ==
    /\ copy.status = "running" /\ Top.pc = "loop"
    /\ \E path \in Top.todo :
          /\ IsDir(disk, path)
          /\ copy' = [copy EXCEPT !.stack =
                         [copy.stack EXCEPT ![Len(copy.stack)].todo = Rest(Top.todo, path)]
                         \o << [src |-> path, dst |-> Join(Top.dst, FileName(path)),
                                pc |-> "create", todo |-> {}] >>]
    /\ UNCHANGED disk
    /\ CopyFrame

\* the loop is over: Ok(())
CopyReturn ==
    /\ copy.status = "running" /\ Top.pc = "loop" /\ Top.todo = {}
    /\ copy' = [copy EXCEPT !.stack = SubSeq(copy.stack, 1, Len(copy.stack) - 1),
                            !.status = IF Len(copy.stack) = 1 THEN "ok" ELSE "running"]
    /\ UNCHANGED disk
    /\ CopyFrame

CopyRun ==
    \/ CopyCreate
    \/ CopyEntryFile
    \/ CopyEntryDir
    \/ CopyReturn

NextCopy ==
    \/ CopyCall
    \/ CopyCreate
    \/ CopyEntryFile
    \/ CopyEntryDir
    \/ CopyReturn

\* the thread that made the call runs it and nothing else until it returns
SpecCopy == Init /\ [][NextCopy]_vars /\ WF_vars(CopyRun)

----------------------------------------------------------------------------
(* The scroll keys of the viewer, from the states in which the viewer      *)
(* shows B at some offset with some count pending (typed digit by digit,   *)
(* the prefix has no bound below usize::MAX).                              *)

\* the pending counts: none, small ones, and those around 2^16 and 2^17
ScrollCounts == {0, 1, 2, 3, 65535, 65536, 65537, 65538, 131072, 131073}

\* the offsets: near the top and near the largest u16
ScrollOffsets == {0, 1, 2, 3, 65533, 65534, 65535}

InitScroll ==
    /\ disk = InitDisk
    /\ left = PaneNew(InitDisk, Cwd)
    /\ right = PaneNew(InitDisk, Cwd)
    /\ active = "Left"
    /\ mode \in {[tag |-> "Viewer", lines |-> InitDisk[<< <<"d">>, <<"B">> >>].lines,
                  title |-> <<"B">>, offset |-> o] : o \in ScrollOffsets}
    /\ clipboard = <<>>
    /\ prefix \in ScrollCounts
    /\ last_key_g = FALSE
    /\ status = "running"
    /\ preview = FALSE
    /\ build \in {"main", "input"}
    /\ last = [key |-> "Enter", from |-> "Filer", count |-> 1, reload |-> "none",
               errs |-> {}]
    /\ fsops = 0
    /\ nkeys = 0
    /\ copy = NoCopy

\* 'j' in Viewer mode
ScrollJ == mode.tag = "Viewer" /\ nkeys < MaxScrollKeys /\ Run("j")
\* 'k' in Viewer mode
ScrollK == mode.tag = "Viewer" /\ nkeys < MaxScrollKeys /\ Run("k")

NextScroll ==
    \/ ScrollJ
    \/ ScrollK

SpecScroll == InitScroll /\ [][NextScroll]_vars

----------------------------------------------------------------------------
(* State functions used by the properties *)

CurPane == IF active = "Left" THEN left ELSE right

\* the key event just handled was `key`, read by run_app in mode `tag`
Handled(key, tag) == last'.key = key /\ last'.from = tag /\ nkeys' = nkeys + 1

\* the set of paths x, X and y are to act on
ExpectedTargets(pane) ==
    IF pane.marked # {}
    THEN {pane.items[i + 1] : i \in {j \in pane.marked : j < Len(pane.items)}}
    ELSE IF pane.selected < Len(pane.items)
         THEN {pane.items[pane.selected + 1]}
         ELSE {}

SeqSet(seq) == {seq[i] : i \in 1..Len(seq)}

\* seq lists exactly the elements of S, each once
Lists(seq, S) == SeqSet(seq) = S /\ Len(seq) = Cardinality(S)

\* remove_dir_all / remove_file on p cannot fail
Deletable(dk, p) ==
    Exists(dk, p) /\ \A q \in Subtree(dk, p) : dk[q].kind = "dir" => dk[q].access

----------------------------------------------------------------------------
(* C1..C10 *)

\* C1: in every reachable state each pane's selected is a valid index of its
\* items (0 when the listing is empty), and a j / k key in Filer or Visual
\* mode never moves the cursor against its direction (no wrap-around).
SelectedInRange(pane) ==
    IF pane.items = <<>> THEN pane.selected = 0
    ELSE 0 <= pane.selected /\ pane.selected < Len(pane.items)

C1_SelectedInRange ==
    /\ [](SelectedInRange(left) /\ SelectedInRange(right))
    /\ [][\A tag \in {"Filer", "Visual"} :
            /\ Handled("j", tag) => CurPane'.selected >= CurPane.selected
            /\ Handled("k", tag) => CurPane'.selected <= CurPane.selected]_vars

\* C1 witness: j with count 20 has saturated at the last entry
C1_Witness ==
    /\ last.key = "j" /\ last.from = "Filer" /\ last.count = 20
    /\ Len(CurPane.items) = 3 /\ CurPane.selected = 2

\* C2 (as claimed): a g pressed in Filer mode when the key event before it
\* was not a g never moves the cursor and only arms the flag.
C2_GgOnlyConsecutive ==
    [][(Handled("g", "Filer") /\ last.key # "g")
          => (CurPane'.selected = CurPane.selected /\ last_key_g')]_vars

\* C3 (as claimed): after a key event that reloaded the active pane, that
\* pane has selected = 0 and no marks.
C3_ReloadResetsAlways ==
    last.reload # "none" => (CurPane.selected = 0 /\ CurPane.marked = {})

\* C3 (amended): a reload that succeeds leaves the pane with no marks and
\* with selected = 0, except that the rename commit then puts the cursor on
\* the entry carrying the new name; a reload that fails leaves items,
\* selected and marked as they were.
C3_ReloadResets ==
    [][/\ last'.reload = "ok" =>
            /\ CurPane'.marked = {}
            /\ IF mode.tag = "Rename"
               THEN \/ CurPane'.selected = 0
                    \/ /\ CurPane'.selected < Len(CurPane'.items)
                       /\ FileName(CurPane'.items[CurPane'.selected + 1]) = mode.buffer
               ELSE CurPane'.selected = 0
       /\ last'.reload = "failed" =>
            /\ CurPane'.items = CurPane.items
            /\ CurPane'.selected = CurPane.selected
            /\ CurPane'.marked = CurPane.marked]_vars

\* C3 witness: Enter on the directory a (cursor at 1) reloaded the pane
C3_Witness ==
    /\ last.key = "Enter" /\ last.from = "Filer" /\ last.reload = "ok"
    /\ CurPane.current_dir = << <<"d">>, <<"a">> >>
    /\ CurPane.selected = 0 /\ CurPane.marked = {}

\* C4 (as claimed): each pane's marked set holds only valid indices of its
\* items.
MarkedValid(pane) == pane.marked \subseteq 0..(Len(pane.items) - 1)

C4_MarkedValid == MarkedValid(left) /\ MarkedValid(right)

\* C5: x captures, X deletes and y copies exactly the marked entries when
\* there are marks, else the entry under the cursor, else nothing.
C5_ResolvedTargets ==
    [][/\ Handled("x", "Filer") =>
            /\ mode'.tag = "ConfirmDelete"
            /\ Lists(mode'.items, ExpectedTargets(CurPane))
       /\ Handled("y", "Filer") => Lists(clipboard', ExpectedTargets(CurPane))
       /\ Handled("X", "Filer") =>
            /\ \A p \in ExpectedTargets(CurPane) : Deletable(disk, p) => ~Exists(disk', p)
            /\ \A q \in (DOMAIN disk) \ (DOMAIN disk') :
                  \E p \in ExpectedTargets(CurPane) : IsPrefix(p, q)
            /\ (DOMAIN disk') \subseteq (DOMAIN disk)]_vars

\* C5 witness: x captured two marked entries
C5_Witness ==
    /\ last.key = "x" /\ last.from = "Filer"
    /\ mode.tag = "ConfirmDelete" /\ Len(mode.items) = 2
    /\ CurPane.marked = {0, 1}

\* C6: in Visual mode the marks of the active pane are exactly the indices
\* from min(anchor, selected) to max(anchor, selected), whatever was marked
\* before; the interval is the same with anchor and cursor swapped.
C6_VisualRange ==
    /\ mode.tag = "Visual" =>
          CurPane.marked = {i \in 0..Max(mode.anchor, CurPane.selected) :
                               Min(mode.anchor, CurPane.selected) <= i}
    /\ \A a \in 0..5 : \A b \in 0..5 : VisualRange(a, b) = VisualRange(b, a)

\* C6 witness: the cursor has moved above the anchor
C6_Witness ==
    /\ mode.tag = "Visual" /\ last.key = "k"
    /\ CurPane.selected < mode.anchor
    /\ Cardinality(CurPane.marked) >= 2

\* C7 (as claimed): V or Esc in Visual mode ends in Filer mode with the
\* active pane (cursor, marks) untouched.
C7_VisualExit ==
    [][\A key \in {"V", "Esc"} :
          Handled(key, "Visual") => (mode'.tag = "Filer" /\ CurPane' = CurPane)]_vars

\* C8: a digit in Filer or Viewer mode appends itself to the pending count
\* and changes nothing else; every other key handled by the loop leaves the
\* pending count 0; j / k in Filer mode move the cursor by the pending count
\* (1 when it is 0), clamped to the listing.
C8_Count ==
    [][/\ \A d \in Digits : \A tag \in {"Filer", "Viewer"} :
             Handled(d, tag) =>
                /\ prefix' = 10 * prefix + ToDigit(d)
                /\ UNCHANGED <<disk, left, right, active, mode, clipboard, last_key_g>>
       /\ (nkeys' = nkeys + 1 /\ last'.from # "Preview"
           /\ last'.key \notin Digits \cup {"q"}) => prefix' = 0
       /\ Handled("j", "Filer") =>
             CurPane'.selected =
                 IF CurPane.items = <<>> THEN 0
                 ELSE Min(CurPane.selected + (IF prefix > 0 THEN prefix ELSE 1),
                          Len(CurPane.items) - 1)
       /\ Handled("k", "Filer") =>
             CurPane'.selected =
                 IF CurPane.selected >= (IF prefix > 0 THEN prefix ELSE 1)
                 THEN CurPane.selected - (IF prefix > 0 THEN prefix ELSE 1)
                 ELSE 0]_vars

\* C8 witness: `2` then `j` moved the cursor from 0 to 2 and the count is gone
C8_Witness ==
    /\ last.key = "j" /\ last.from = "Filer" /\ last.count = 2
    /\ CurPane.selected = 2 /\ prefix = 0 /\ nkeys = 2

\* C9: y in Filer mode makes the clipboard exactly the resolved targets of
\* the active pane (nothing of the old clipboard stays) and clears its marks.
C9_CopyReplaces ==
    [][Handled("y", "Filer") =>
          /\ Lists(clipboard', ExpectedTargets(CurPane))
          /\ CurPane'.marked = {}
          /\ active' = active]_vars

\* C9 witness: y copied two marked entries
C9_Witness ==
    /\ last.key = "y" /\ last.from = "Filer"
    /\ Len(clipboard) = 2 /\ CurPane.marked = {}

\* C10: only y in Filer mode changes the clipboard.
C10_ClipboardFrame ==
    [][clipboard' # clipboard => Handled("y", "Filer")]_vars

\* C10 witness: the second of two pastes, the clipboard still holding /d/B
C10_Witness ==
    /\ last.key = "p" /\ fsops = 2
    /\ clipboard = << << <<"d">>, <<"B">> >> >>

----------------------------------------------------------------------------
(* C11..C20 *)

\* where paste puts the source path src
PasteDst(src) == Join(CurPane.current_dir, FileName(src))

\* every entry of the tree at src on the disk dk0 is on the disk dk1 below
\* dst: same kind, and for a file the same content
Mirrors(dk0, src, dk1, dst) ==
    \A p \in Subtree(dk0, src) :
        LET q == dst \o SubSeq(p, Len(src) + 1, Len(p))
        IN  /\ Exists(dk1, q)
            /\ dk1[q].kind = dk0[p].kind
            /\ dk0[p].kind = "file" =>
                  /\ dk1[q].text = dk0[p].text
                  /\ dk1[q].lines = dk0[p].lines
                  /\ dk1[q].size = dk0[p].size

\* p creates nothing in current_dir but the clipboard's file names, and then
\* calls the reload of the active pane
PasteFrame ==
    /\ clipboard' = clipboard
    /\ CurPane'.current_dir = CurPane.current_dir
    /\ \A q \in Children(disk', CurPane.current_dir) :
          \/ Exists(disk, q)
          \/ \E i \in 1..Len(clipboard) : q = PasteDst(clipboard[i])
    /\ last'.reload # "none"
    /\ last'.reload = "ok" =>
          CurPane' = [items |-> SortedEntries(disk', CurPane.current_dir),
                      selected |-> 0, current_dir |-> CurPane.current_dir,
                      marked |-> {}]

\* C11 (as claimed): p copies every clipboard path into the active pane's
\* current_dir under the same file name, directories with their whole tree,
\* creates nothing else there, and reloads the active pane.
C11_PasteCopiesAll ==
    [][Handled("p", "Filer") =>
          /\ \A i \in 1..Len(clipboard) :
                Mirrors(disk, clipboard[i], disk', PasteDst(clipboard[i]))
          /\ PasteFrame]_vars

\* C11 (amended): p copies into the active pane's current_dir, under the
\* same file name and with its whole tree, every clipboard path whose copy
\* reported no failure, provided no destination is one of the sources or an
\* ancestor of one; it creates nothing else there and reloads the pane.
C11_Paste ==
    [][Handled("p", "Filer") =>
          /\ (\A i, j \in 1..Len(clipboard) :
                  ~IsPrefix(PasteDst(clipboard[i]), clipboard[j]))
               => \A i \in 1..Len(clipboard) :
                     clipboard[i] \notin last'.errs =>
                        Mirrors(disk, clipboard[i], disk', PasteDst(clipboard[i]))
          /\ PasteFrame]_vars

\* C11 witness: B and the directory a were marked in /d and copied, and p in
\* the parent directory has put B, a and a/c there, and nothing else
C11_Witness ==
    /\ last.key = "p" /\ last.from = "Filer" /\ last.errs = {}
    /\ SeqSet(clipboard) = {<< <<"d">>, <<"B">> >>, << <<"d">>, <<"a">> >>}
    /\ CurPane.current_dir = Root
    /\ Children(disk, Root) = {<< <<"B">> >>, << <<"a">> >>, << <<"d">> >>, << <<"u">> >>}
    /\ IsFile(disk, << <<"a">>, <<"c">> >>)
    /\ Len(CurPane.items) = 4

\* C12: x deletes nothing and leaves both panes as they are; every key in
\* ConfirmDelete mode but y and Enter leaves the disk and both panes as they
\* are and makes no reload; n and Esc return to Filer mode.  So after x and
\* then n or Esc the listing, selected and marked are those before x.
C12_CancelDelete ==
    [][/\ Handled("x", "Filer") =>
            /\ mode'.tag = "ConfirmDelete"
            /\ disk' = disk /\ left' = left /\ right' = right /\ active' = active
            /\ last'.reload = "none"
       /\ (last'.from = "ConfirmDelete" /\ nkeys' = nkeys + 1
              /\ last'.key \notin {"y", "Enter"}) =>
            /\ disk' = disk /\ left' = left /\ right' = right /\ active' = active
            /\ last'.reload = "none"
            /\ mode'.tag \in {"ConfirmDelete", "Filer"}
            /\ mode'.tag = "ConfirmDelete" => mode' = mode
            /\ last'.key \in {"n", "Esc"} => mode' = FilerMode]_vars

\* C12 witness: the cursor was moved to 1, entry 1 was marked, x was
\* pressed and then n: the mark and the cursor are still there, and so is
\* the disk
C12_Witness ==
    /\ last.key = "n" /\ last.from = "ConfirmDelete"
    /\ mode = FilerMode
    /\ CurPane.marked = {1} /\ CurPane.selected = 1
    /\ disk = InitDisk

\* y or Enter in ConfirmDelete mode: every captured path has been given to
\* a removal (one that cannot fail is gone, whatever happened to the other
\* paths; one that is still there has been reported), nothing but the
\* captured trees is removed, and the mode is Filer
ConfirmedDelete ==
    /\ mode' = FilerMode
    /\ \A p \in SeqSet(mode.items) :
          /\ Deletable(disk, p) => ~Exists(disk', p)
          /\ Exists(disk', p) => p \in last'.errs
    /\ \A q \in (DOMAIN disk) \ (DOMAIN disk') :
          \E p \in SeqSet(mode.items) : IsPrefix(p, q)
    /\ \A q \in DOMAIN disk' : q \in DOMAIN disk /\ disk'[q] = disk[q]
    /\ last'.reload # "none"

C14_SearchExit ==
    [][\A key \in {"Enter", "Esc"} :
          Handled(key, "Search") =>
             /\ mode' = FilerMode
             /\ left' = left /\ right' = right /\ active' = active
             /\ ~preview']_vars

\* C15 (as claimed): in Search and in Rename mode every character key but q
\* appends that character to the query / buffer, and Backspace removes the
\* last character (nothing from an empty one).
C15_BufferEdits ==
    [][/\ \A key \in AllChars \ {"q"} :
            /\ Handled(key, "Search") =>
                  mode'.tag = "Search" /\ mode'.query = Append(mode.query, key)
            /\ Handled(key, "Rename") =>
                  mode'.tag = "Rename" /\ mode'.buffer = Append(mode.buffer, key)
       /\ Handled("Backspace", "Search") =>
            /\ mode'.tag = "Search"
            /\ mode'.query = IF mode.query = <<>> THEN <<>>
                              ELSE SubSeq(mode.query, 1, Len(mode.query) - 1)
       /\ Handled("Backspace", "Rename") =>
            /\ mode'.tag = "Rename"
            /\ mode'.buffer = IF mode.buffer = <<>> THEN <<>>
                               ELSE SubSeq(mode.buffer, 1, Len(mode.buffer) - 1)]_vars

\* the indices of pane in the scan order selected+1, selected+2, ...,
\* wrapping around and ending at selected itself
ScanOrder(pane) ==
    [k \in 1..Len(pane.items) |-> (pane.selected + k) % Len(pane.items)]

\* the entry at index i matches the query q, both lowercased
Matches(pane, i, q) ==
    Contains(ToLowercase(FileName(pane.items[i + 1])), ToLowercase(q))

\* where the cursor is to be after an edit that left the query q
SearchTarget(pane, q) ==
    LET order == ScanOrder(pane)
        found == {k \in 1..Len(order) : Matches(pane, order[k], q)}
    IN  IF q = <<>> \/ found = {} THEN pane.selected
        ELSE order[CHOOSE k \in found : \A m \in found : k <= m]

\* C16: after an edit of the query in Search mode (a character appended, or
\* Backspace) the cursor of the active pane is on the first entry in scan
\* order whose lowercased name contains the lowercased query, and where it
\* was when the query is empty or nothing matches; items, marks and the
\* other pane are as before.
C16_SearchJump ==
    [][\A key \in TypedChars \cup {"Backspace"} :
          Handled(key, "Search") =>
             /\ mode'.tag = "Search"
             /\ CurPane' = [CurPane EXCEPT
                              !.selected = SearchTarget(CurPane, mode'.query)]
             /\ active' = active
             /\ (IF active = "Left" THEN right' = right ELSE left' = left)]_vars

\* C16 witness: four keys, j, v, / and b: from the cursor on a (index 1,
\* marked) the query "b" has sent the cursor past i.png and round the end
\* of the listing to B (index 0), the only entry whose lowercased name
\* contains it; the mark is still there
C16_Witness ==
    /\ last.key = "b" /\ last.from = "Search"
    /\ mode.tag = "Search" /\ mode.query = <<"b">>
    /\ nkeys = 4 /\ CurPane.marked = {1} /\ CurPane.selected = 0
    /\ Len(CurPane.items) = 3

\* the entry under the cursor of the active pane
CursorEntry == CurPane.items[CurPane.selected + 1]

\* the path the commit of a rename gives to the entry under the cursor
RenamedPath == Join(Parent(CursorEntry), mode.buffer)

\* the first index of pane whose entry has the file name name, else 0
IndexOfName(pane, name) ==
    LET found == {i \in 0..(Len(pane.items) - 1) : FileName(pane.items[i + 1]) = name}
    IN  IF found = {} THEN 0 ELSE CHOOSE i \in found : \A j \in found : i <= j

ValidModes == {"Filer", "Viewer", "ConfirmDelete", "Visual", "Search", "Rename", "Sort"}

\* C18: a rename that fails at the commit leaves the disk as it was (the
\* entry keeps its old name), the mode is Filer, run_app is still running,
\* and a reload that succeeded lists the entry (if it is on the disk at
\* all) under its old name.  No key event whose copy, removal, rename or
\* reload failed ends run_app or leaves a mode that is not one of Mode's;
\* run_app never panics.
C18_FailuresTolerated ==
    /\ [](status # "panicked" /\ mode.tag \in ValidModes)
    /\ [][/\ (Handled("Enter", "Rename") /\ last'.errs # {}) =>
              /\ last'.errs = {CursorEntry}
              /\ disk' = disk
              /\ mode' = FilerMode
              /\ status' = "running"
              /\ (last'.reload = "ok" /\ Exists(disk, CursorEntry)) =>
                    \E i \in 1..Len(CurPane'.items) : CurPane'.items[i] = CursorEntry
          /\ (nkeys' = nkeys + 1 /\ (last'.errs # {} \/ last'.reload = "failed")) =>
              /\ status' = "running"
              /\ mode'.tag \in ValidModes]_vars

\* C18 witness: the rename of the file B has failed (to the empty name, or
\* to the name of the directory a); the disk is as it was, B is listed, the
\* mode is Filer and run_app is running
C18_Witness ==
    /\ last.key = "Enter" /\ last.from = "Rename"
    /\ last.errs = {<< <<"d">>, <<"B">> >>} /\ last.reload = "ok"
    /\ disk = InitDisk
    /\ CurPane.items[1] = << <<"d">>, <<"B">> >>
    /\ mode = FilerMode /\ status = "running"

\* seq is in the order of the criterion at index by: modification time
\* ascending, creation time ascending, size descending, lowercased name
\* ascending
InCriterionOrder(seq, by, dk) ==
    \A i, j \in 1..Len(seq) :
        i < j =>
          CASE by = 0 -> ModifiedKey(dk, seq[i]) <= ModifiedKey(dk, seq[j])
            [] by = 1 -> CreatedKey(dk, seq[i]) <= CreatedKey(dk, seq[j])
            [] by = 2 -> SizeKey(dk, seq[i]) >= SizeKey(dk, seq[j])
            [] OTHER -> ~BytesLess(NameKey(seq[j]), NameKey(seq[i]))

\* seq and old hold the same entries, each as often
SameEntries(seq, old) ==
    /\ Len(seq) = Len(old)
    /\ \A x \in SeqSet(seq) \cup SeqSet(old) :
          Cardinality({i \in 1..Len(seq) : seq[i] = x})
             = Cardinality({i \in 1..Len(old) : old[i] = x})

\* C19: in Sort mode the highlighted option is in 0..3; s sets it to 0; j
\* and Down move it by +1 mod 4, k and Up by -1 mod 4; Enter puts the
\* listing of the active pane in the order of the criterion at that index
\* and returns to Filer mode; Esc returns to Filer mode and leaves both
\* panes as they are.
C19_SortPicking ==
    /\ [](mode.tag = "Sort" => mode.selected \in 0..3)
    /\ [][/\ Handled("s", "Filer") => mode' = [tag |-> "Sort", selected |-> 0]
          /\ \A key \in {"j", "Down"} :
                Handled(key, "Sort") =>
                   /\ mode' = [tag |-> "Sort", selected |-> (mode.selected + 1) % 4]
                   /\ left' = left /\ right' = right
          /\ \A key \in {"k", "Up"} :
                Handled(key, "Sort") =>
                   /\ mode' = [tag |-> "Sort",
                               selected |-> IF mode.selected = 0 THEN 3
                                            ELSE mode.selected - 1]
                   /\ left' = left /\ right' = right
          /\ Handled("Enter", "Sort") =>
                /\ mode' = FilerMode
                /\ InCriterionOrder(CurPane'.items, mode.selected, disk)
                /\ SameEntries(CurPane'.items, CurPane.items)
          /\ Handled("Esc", "Sort") =>
                /\ mode' = FilerMode
                /\ left' = left /\ right' = right /\ active' = active]_vars

\* C19 witness: s, two moves of the highlight to option 2 (j, j, or k, k
\* through the wrap from 0 to 3) and Enter: the listing is in the order of
\* Size, B (2), i.png (2), a (0)
C19_Witness ==
    /\ last.key = "Enter" /\ last.from = "Sort" /\ nkeys = 4
    /\ mode = FilerMode
    /\ CurPane.items = << << <<"d">>, <<"B">> >>,
                          << <<"d">>, <<"i", ".", "p", "n", "g">> >>,
                          << <<"d">>, <<"a">> >> >>

\* C20: the commit of a sort sets selected to 0 and empties marked in the
\* active pane, leaves its current_dir and the entries it lists as they are
\* up to their order, and changes nothing in the other pane nor on disk.
C20_SortResets ==
    [][Handled("Enter", "Sort") =>
          /\ CurPane'.selected = 0
          /\ CurPane'.marked = {}
          /\ CurPane'.current_dir = CurPane.current_dir
          /\ SameEntries(CurPane'.items, CurPane.items)
          /\ active' = active
          /\ (IF active = "Left" THEN right' = right ELSE left' = left)
          /\ disk' = disk /\ clipboard' = clipboard]_vars

\* C20 witness: two keys (such as G and v, which leave the cursor on index
\* 2 and a mark there), then s and Enter: the sort by modification time has
\* put i.png first, and the cursor is on 0 with no marks
C20_Witness ==
    /\ last.key = "Enter" /\ last.from = "Sort" /\ nkeys = 4
    /\ CurPane.selected = 0 /\ CurPane.marked = {}
    /\ CurPane.items = << << <<"d">>, <<"i", ".", "p", "n", "g">> >>,
                          << <<"d">>, <<"B">> >>,
                          << <<"d">>, <<"a">> >> >>

----------------------------------------------------------------------------
(* C21..C30 *)

\* apply_sort applied twice to the listing gives what apply_sort applied
\* once gives, whatever the criterion
SortIdempotent(items, dk) ==
    \A by \in 0..3 :
        LET once == SortItems(items, by, dk)
        IN  SortItems(once, by, dk) = once

\* C21: for each of the four criteria and the listing of either pane,
\* apply_sort applied twice gives the order that apply_sort applied once
\* gives (the disk, hence every key, is the same in both applications):
\* it holds of the first listings and again after every step that changes
\* a listing or the disk.
C21_SortIdempotent ==
    /\ SortIdempotent(left.items, disk) /\ SortIdempotent(right.items, disk)
    /\ [][(left.items # left'.items \/ right.items # right'.items \/ disk # disk')
             => /\ SortIdempotent(left'.items, disk')
                /\ SortIdempotent(right'.items, disk')]_vars

\* C21 witness: the left pane has been sorted by modification time, which
\* put i.png before B; the two tie on size, and the sort by size of that
\* listing, once or twice, keeps them in that order
C21_Witness ==
    /\ last.key = "Enter" /\ last.from = "Sort"
    /\ left.items = << << <<"d">>, <<"i", ".", "p", "n", "g">> >>,
                       << <<"d">>, <<"B">> >>,
                       << <<"d">>, <<"a">> >> >>
    /\ SizeKey(disk, left.items[1]) = SizeKey(disk, left.items[2])
    /\ SortItems(left.items, 2, disk) = left.items
    /\ SortItems(SortItems(left.items, 2, disk), 2, disk) = left.items

\* the keys of a and b under the criterion at index by are equal
KeysTie(by, a, b, dk) ==
    CASE by = 0 -> ModifiedKey(dk, a) = ModifiedKey(dk, b)
      [] by = 1 -> CreatedKey(dk, a) = CreatedKey(dk, b)
      [] by = 2 -> SizeKey(dk, a) = SizeKey(dk, b)
      [] OTHER -> NameKey(a) = NameKey(b)

\* two listings of the same entries come out of apply_sort in one order,
\* whatever the criterion
SortDetermined(a, b, dk) ==
    SameEntries(a, b) => \A by \in 0..3 : SortItems(a, by, dk) = SortItems(b, by, dk)

\* C22: the order after a sort depends on the criterion and on the entries
\* alone: two panes that list the same entries in different orders are put
\* in one and the same order by the same criterion, and entries whose keys
\* tie come out in the ascending order of their lowercased names.
C22_SortDetermined ==
    /\ SortDetermined(left.items, right.items, disk)
    /\ [][/\ (left.items # left'.items \/ right.items # right'.items \/ disk # disk')
                => SortDetermined(left'.items, right'.items, disk')
          /\ Handled("Enter", "Sort") =>
                \A i, j \in 1..Len(CurPane'.items) :
                    (i < j /\ KeysTie(mode.selected, CurPane'.items[i],
                                      CurPane'.items[j], disk))
                       => ~BytesLess(NameKey(CurPane'.items[j]),
                                     NameKey(CurPane'.items[i]))]_vars

\* C23: a load and every reload that succeeds leave the listing in the
\* ascending order of the lowercased names, the order the Name criterion
\* gives (a before B).
C23_LoadOrder ==
    /\ InCriterionOrder(left.items, 3, disk) /\ InCriterionOrder(right.items, 3, disk)
    /\ [][last'.reload = "ok" =>
             /\ InCriterionOrder(CurPane'.items, 3, disk')
             /\ SortItems(CurPane'.items, 3, disk') = CurPane'.items]_vars

\* a directory /d holding b.txt of 512 bytes and a.txt of 1024 bytes, and
\* the path of an entry c.txt that is no longer there
ExampleGone == << <<"d">>, <<"c", ".", "t", "x", "t">> >>
ExampleA == << <<"d">>, <<"a", ".", "t", "x", "t">> >>
ExampleB == << <<"d">>, <<"b", ".", "t", "x", "t">> >>
ExampleDisk ==
    (Root :> DirNode(TRUE, 1, 1))
    @@ (<< <<"d">> >> :> DirNode(TRUE, 1, 1))
    @@ (ExampleA :> FileNode(TRUE, 1, 1024, 1, 1))
    @@ (ExampleB :> FileNode(TRUE, 1, 512, 1, 1))

\* C24: the commit of a sort leaves the listing with modification times
\* ascending (criterion 0), creation times ascending (1), sizes descending
\* (2) or lowercased names ascending (3), where an entry whose metadata
\* cannot be read counts with the epoch as its time and 0 as its size; and
\* b.txt (512 bytes), a.txt (1024 bytes) come out as a.txt, b.txt under
\* Size and under Name, with a listed entry that is gone from the disk
\* first under both times and last under Size.
C24_SortDirections ==
    /\ \A by \in {0, 1} : SortItems(<<ExampleB, ExampleA, ExampleGone>>, by, ExampleDisk)
                              = <<ExampleGone, ExampleB, ExampleA>>
    /\ SortItems(<<ExampleB, ExampleGone, ExampleA>>, 2, ExampleDisk)
          = <<ExampleA, ExampleB, ExampleGone>>
    /\ SortItems(<<ExampleB, ExampleA>>, 2, ExampleDisk) = <<ExampleA, ExampleB>>
    /\ SortItems(<<ExampleB, ExampleA>>, 3, ExampleDisk) = <<ExampleA, ExampleB>>
    /\ [][Handled("Enter", "Sort") =>
             LET seq == CurPane'.items
                 readable(p) == p \in DOMAIN disk
                 modified(p) == IF readable(p) THEN disk[p].mtime ELSE 0
                 created(p) == IF readable(p) THEN disk[p].ctime ELSE 0
                 length(p) == IF readable(p) THEN disk[p].size ELSE 0
                 lower(p) == ToLowercase(FileName(p))
             IN  \A i, j \in 1..Len(seq) :
                    i < j =>
                      CASE mode.selected = 0 -> modified(seq[i]) <= modified(seq[j])
                        [] mode.selected = 1 -> created(seq[i]) <= created(seq[j])
                        [] mode.selected = 2 -> length(seq[i]) >= length(seq[j])
                        [] OTHER -> lower(seq[i]) = lower(seq[j])
                                       \/ BytesLess(lower(seq[i]), lower(seq[j]))]_vars

\* C24 witness: B has been deleted through the left pane, and the right
\* pane, which still lists it, has been sorted by size: B, whose metadata
\* cannot be read, counts with size 0 and comes after i.png (2), before
\* the directory a (0), which it ties with and stood before
C24_Witness ==
    /\ last.key = "Enter" /\ last.from = "Sort"
    /\ ~Exists(disk, << <<"d">>, <<"B">> >>)
    /\ active = "Right"
    /\ right.items = << << <<"d">>, <<"i", ".", "p", "n", "g">> >>,
                        << <<"d">>, <<"B">> >>,
                        << <<"d">>, <<"a">> >> >>

\* the rows of the viewer's inner area on the terminal the model runs on
ViewerHeight == 1

\* max_offset of the text on view: max(0, total_lines - visible_height)
MaxViewOffset == Max(0, mode.lines - ViewerHeight)

\* C25: in Viewer mode the stored offset is within 0..max_offset after every
\* key; gg sets it to 0, G to max_offset, and Enter returns to Filer mode.
C25_ViewerOffset ==
    /\ [](mode.tag = "Viewer" => mode.offset \in 0..MaxViewOffset)
    /\ [][/\ (Handled("g", "Viewer") /\ last_key_g) =>
                mode' = [mode EXCEPT !.offset = 0]
          /\ Handled("G", "Viewer") =>
                mode' = [mode EXCEPT !.offset = MaxViewOffset]
          /\ Handled("Enter", "Viewer") => mode' = FilerMode]_vars

\* the step is a 'q' key event, read by run_app or by show_image
QuitKey == last'.key = "q" /\ nkeys' = nkeys + 1

\* the step ends run_app and changes nothing else: no file operation, no
\* commit of what the mode holds
QuitsOnly ==
    /\ status' = "quit"
    /\ disk' = disk /\ left' = left /\ right' = right /\ active' = active
    /\ mode' = mode /\ clipboard' = clipboard

\* C26 (as claimed): a 'q' key event ends the event loop at once, whatever
\* the mode, with no file operation and no commit.
C26_QuitAlways == [][QuitKey => QuitsOnly]_vars

\* C26 (amended): a 'q' key event read by run_app ends the loop at once
\* from each of the seven modes, with no file operation and no commit, and
\* no step follows; a 'q' typed while show_image holds the terminal (the
\* mode is Filer) is dropped, and the loop goes on after Enter.
C26_Quit ==
    /\ [][\A tag \in ValidModes : Handled("q", tag) => QuitsOnly]_vars
    /\ [][status = "running"]_vars
    /\ [][(QuitKey /\ preview) => (status' = "running" /\ preview' /\ mode = FilerMode)]_vars

\* C26 witness: 'q' in Rename mode with the buffer edited: run_app has
\* ended, the rename is not committed and the disk is as it was
C26_Witness ==
    /\ status = "quit" /\ last.key = "q" /\ last.from = "Rename"
    /\ mode.tag = "Rename" /\ mode.buffer # mode.original
    /\ disk = InitDisk

\* the directory a pane in dir is in after on_left
UpFrom(dir) == IF HasParent(dir) THEN Parent(dir) ELSE dir

\* C27: in Filer mode h with the left pane active takes that pane to its
\* parent directory and with the right pane active makes the left pane
\* active; l is the mirror image; so after h the left pane is active and
\* after l the right one; an h or l that switches panes leaves both panes
\* (current_dir, items, selected, marked) as they were; neither key changes
\* the other pane, the mode, the clipboard or the disk.
C27_LeftRight ==
    [][/\ Handled("h", "Filer") =>
            /\ active' = "Left"
            /\ right' = right
            /\ IF active = "Left"
               THEN left'.current_dir = UpFrom(left.current_dir)
               ELSE left' = left
       /\ Handled("l", "Filer") =>
            /\ active' = "Right"
            /\ left' = left
            /\ IF active = "Right"
               THEN right'.current_dir = UpFrom(right.current_dir)
               ELSE right' = right
       /\ (Handled("h", "Filer") \/ Handled("l", "Filer")) =>
            /\ mode' = mode /\ disk' = disk /\ clipboard' = clipboard]_vars

\* C27 witness: j, l, l: the first l made the right pane active and left
\* the cursor of the left pane on index 1, the second took the right pane
\* to the root, which it lists
C27_Witness ==
    /\ last.key = "l" /\ last.from = "Filer" /\ last.reload = "ok"
    /\ active = "Right"
    /\ right.current_dir = Root
    /\ right.items = << << <<"d">> >>, << <<"u">> >> >>
    /\ left.current_dir = Cwd /\ left.selected = 1

\* the active pane has an entry under the cursor and its extension is one
\* of the image extensions, in any case
OnImageName ==
    /\ HasItem(CurPane, CurPane.selected)
    /\ HasFileName(Item(CurPane, CurPane.selected))
    /\ HasExtension(FileName(Item(CurPane, CurPane.selected)))
    /\ ToLowercase(Extension(FileName(Item(CurPane, CurPane.selected)))) \in ImageExtensions

\* C28: Enter in Filer mode on an entry with an image extension makes the
\* other pane active and shows the image, the mode stays Filer and both
\* panes keep their directories and listings; Enter on any other entry does
\* what enter_directory does and leaves the active pane as it is.
C28_EnterImage ==
    [][Handled("Enter", "Filer") =>
          IF OnImageName
          THEN /\ active' # active
               /\ preview'
               /\ mode' = FilerMode
               /\ left' = left /\ right' = right /\ disk' = disk
          ELSE /\ active' = active
               /\ ~preview'
               /\ left' = OnEnter(Session).left
               /\ right' = OnEnter(Session).right
               /\ mode' = OnEnter(Session).mode]_vars

\* Enter in Filer mode has run on_enter (and not the image preview)
EnterDirectory == Handled("Enter", "Filer") /\ ~preview'

\* the entry under the cursor of the active pane is a file that
\* read_to_string decodes
OnTextFile ==
    /\ IsFile(disk, CursorEntry)
    /\ disk[CursorEntry].access /\ disk[CursorEntry].text

\* what on_enter does on a file or on nothing: a text file is opened in the
\* viewer at offset 0, anything else changes nothing; the panes are as they
\* were
EnterOnFile ==
    /\ left' = left /\ right' = right
    /\ IF HasItem(CurPane, CurPane.selected) /\ OnTextFile
       THEN /\ mode'.tag = "Viewer" /\ mode'.offset = 0
            /\ mode'.title = FileName(CursorEntry)
       ELSE mode' = mode

CanBeCopied(p, q) ==
    /\ IsFile(disk, p) /\ disk[p].access
    /\ HasParent(q) /\ IsDir(disk', Parent(q)) /\ disk'[Parent(q)].access
    /\ Len(q) <= MaxDepth
    /\ ~IsDir(disk, q)

\* C30: the recursive copy goes on after a failure, at every level: after
\* p, every file below a clipboard directory whose own copy has nothing to
\* fail on is at its place below the destination, whatever happened to its
\* siblings, and so is every clipboard file that can be copied.
C30_BestEffortCopy ==
    [][Handled("p", "Filer") =>
          \A i \in 1..Len(clipboard) :
              LET src == clipboard[i]
                  dst == PasteDst(src)
              IN  /\ IsDir(disk, src) =>
                        \A p \in Subtree(disk, src) :
                            LET q == dst \o SubSeq(p, Len(src) + 1, Len(p))
                            IN  CanBeCopied(p, q) => IsFile(disk', q)
                  /\ (IsFile(disk, src) /\ CanBeCopied(src, dst)) => IsFile(disk', dst)]_vars

----------------------------------------------------------------------------
(* C31..C40 *)

\* C31: Esc in each mode other than Filer sets the mode to Filer, and a
\* mode other than Filer is left for Filer mode only.
C31_EscAndNoNesting ==
    [][/\ \A tag \in ValidModes \ {"Filer"} :
             Handled("Esc", tag) => mode' = FilerMode
       /\ (mode.tag # "Filer" /\ mode'.tag # mode.tag) => mode'.tag = "Filer"]_vars

\* C32: with an empty listing in the active pane the keys x, X, y, r and
\* Enter of Filer mode do nothing: the mode stays Filer, the clipboard
\* keeps its contents, and the cursor and the marks of the pane stay.
C32_EmptyListingNoOp ==
    [][\A key \in {"x", "X", "y", "r", "Enter"} :
          (Handled(key, "Filer") /\ CurPane.items = <<>>) =>
             /\ mode' = FilerMode
             /\ clipboard' = clipboard
             /\ CurPane'.selected = CurPane.selected
             /\ CurPane'.marked = CurPane.marked]_vars

\* C33: no key event changes the pane that is not active (its current_dir,
\* items, selected and marked), and the active pane changes only on an h or
\* l of Filer mode that switches panes and on an Enter that shows an image.
C33_ActivePaneOnly ==
    [][nkeys' = nkeys + 1 =>
          /\ (IF active = "Left" THEN right' = right ELSE left' = left)
          /\ active' # active =>
                \/ Handled("h", "Filer") /\ active = "Right" /\ left' = left
                \/ Handled("l", "Filer") /\ active = "Left" /\ right' = right
                \/ last'.key = "Enter" /\ OnImageName /\ preview'
                     /\ left' = left /\ right' = right]_vars

\* C33 witness: l, then X in the right pane: B is gone from the disk and
\* from the right pane, and the left pane is as it was loaded, B listed
C33_Witness ==
    /\ last.key = "X" /\ last.from = "Filer" /\ active = "Right"
    /\ ~Exists(disk, << <<"d">>, <<"B">> >>)
    /\ left = PaneNew(InitDisk, Cwd)
    /\ right.items = << << <<"d">>, <<"a">> >>,
                        << <<"d">>, <<"i", ".", "p", "n", "g">> >> >>

\* C34: every call of copy_dir_recursively that paste makes on a clipboard
\* directory returns, Ok or Err, also when the destination is the copied
\* directory or lies below it; and what it returns and the disk it leaves
\* are an outcome of the copy as the paste handler of the key 'p' has it.
C34_CopyTerminates ==
    /\ (copy.status = "running") ~> (copy.status \in {"ok", "failed"})
    /\ [](copy.status \in {"ok", "failed"} =>
             [ok |-> copy.status = "ok", dk |-> disk]
                \in CopyDirRecursively(copy.from, copy.src, copy.dst, copy.now))

\* C34 witness: the copy of /d into /d itself has returned: it made /d/d
\* and /d/d/d and failed on the next level, where the path is too long
C34_Witness ==
    /\ copy.status = "failed"
    /\ copy.src = << <<"d">> >> /\ copy.dst = << <<"d">>, <<"d">> >>
    /\ IsDir(disk, << <<"d">>, <<"d">>, <<"d">> >>)

\* C35: in Viewer mode j with the count n pending moves the offset down by
\* n, and k up by n, stopping at the ends of the offset's range, whatever n
\* is; so a larger count scrolls at least as far as a smaller one.
C35_ScrollByCount ==
    /\ [][/\ Handled("j", "Viewer") =>
                mode'.offset = Min(mode.offset + last'.count, U16Max)
          /\ Handled("k", "Viewer") =>
                mode'.offset = Max(mode.offset - last'.count, 0)]_vars
    /\ [](mode.tag = "Viewer" =>
             \A m, n \in ScrollCounts \ {0} :
                 m <= n => /\ ScrollDown(mode.offset, m) <= ScrollDown(mode.offset, n)
                           /\ ScrollUp(mode.offset, m) >= ScrollUp(mode.offset, n))

\* the paths the step takes from the disk
Vanished == (DOMAIN disk) \ (DOMAIN disk')

\* the step is the commit of a rename, and the paths it takes from the disk
\* are paths of the renamed entry, which are now below its new name
MovedByRename ==
    /\ Handled("Enter", "Rename")
    /\ HasItem(CurPane, CurPane.selected)
    /\ \A p \in Vanished :
          /\ IsPrefix(CursorEntry, p)
          /\ Exists(disk', RenamedPath \o SubSeq(p, Len(CursorEntry) + 1, Len(p)))

\* C36: a path leaves the disk only on X in Filer mode and on y or Enter in
\* ConfirmDelete mode (the commit of a rename moves the entry to its new
\* name); x captures the targets of the active pane; the confirmation
\* removes paths of the captured trees only, and every captured path that
\* can be removed; every other key in ConfirmDelete mode but the cancel
\* leaves the captured list, both panes, the active pane and the disk as
\* they are, and the cancel leaves the disk and the panes as they are.
C36_DeleteOnlyOnCommand ==
    [][/\ Vanished # {} =>
             \/ Handled("X", "Filer")
             \/ Handled("y", "ConfirmDelete")
             \/ Handled("Enter", "ConfirmDelete")
             \/ MovedByRename
       /\ Handled("x", "Filer") =>
             /\ mode'.tag = "ConfirmDelete"
             /\ SeqSet(mode'.items) = ExpectedTargets(CurPane)
             /\ disk' = disk
       /\ \A key \in {"y", "Enter"} :
             Handled(key, "ConfirmDelete") =>
                /\ \A q \in Vanished : \E p \in SeqSet(mode.items) : IsPrefix(p, q)
                /\ \A p \in SeqSet(mode.items) : Deletable(disk, p) => ~Exists(disk', p)
       /\ (nkeys' = nkeys + 1 /\ last'.from = "ConfirmDelete"
             /\ last'.key \notin {"y", "Enter"}) =>
                /\ disk' = disk /\ left' = left /\ right' = right /\ active' = active
                /\ IF last'.key \in {"n", "Esc"} THEN mode' = FilerMode ELSE mode' = mode]_vars

\* C36 witness: the third key is Enter in ConfirmDelete mode: B, captured by
\* x, is gone and nothing else
C36_Witness ==
    /\ last.key = "Enter" /\ last.from = "ConfirmDelete" /\ nkeys = 3
    /\ DOMAIN disk = (DOMAIN InitDisk) \ {<< <<"d">>, <<"B">> >>}
    /\ CurPane.items = << << <<"d">>, <<"a">> >>,
                          << <<"d">>, <<"i", ".", "p", "n", "g">> >> >>

\* every item of the listing is a direct child of the pane's current_dir
ListsChildren(pane) ==
    \A i \in DOMAIN pane.items : Parent(pane.items[i]) = pane.current_dir

\* C37: in every reachable state every item of a pane's listing is a direct
\* child of the pane's current_dir, and a paste writes every source below
\* the directory whose entries the active pane lists.
C37_ListingOfCurrentDir ==
    /\ [](ListsChildren(left) /\ ListsChildren(right))
    /\ [][(Handled("p", "Filer") /\ CurPane.items # <<>>) =>
             \A p \in DOMAIN disk' \ DOMAIN disk :
                IsPrefix(Parent(CurPane.items[1]), p)]_vars

\* the step changed the entries of the directory that the pane shows
EntriesChanged(pane) ==
    Children(disk', pane.current_dir) # Children(disk, pane.current_dir)

\* C38: after a paste, a delete or a rename, every pane whose current_dir is
\* a directory whose entries the operation changed lists exactly the
\* entries on the disk, the inactive pane included.
C38_BothPanesFresh ==
    [][(\/ Handled("p", "Filer") \/ Handled("X", "Filer")
        \/ Handled("y", "ConfirmDelete") \/ Handled("Enter", "ConfirmDelete")
        \/ Handled("Enter", "Rename")) =>
          /\ EntriesChanged(left') => Lists(left'.items, Children(disk', left'.current_dir))
          /\ EntriesChanged(right') => Lists(right'.items, Children(disk', right'.current_dir))]_vars

\* C39: the commit of a rename never indexes the listing out of bounds: when
\* Enter is handled in Rename mode, `selected` of the active pane is an
\* index of its items and the entry there has the name captured as
\* `original`, and run_app does not panic; every other key handled in
\* Rename mode leaves the active pane, both listings and both cursors as
\* they are.
C39_RenameIndexValid ==
    [][(nkeys' = nkeys + 1 /\ last'.from = "Rename") =>
          IF last'.key = "Enter"
          THEN /\ HasItem(CurPane, CurPane.selected)
               /\ FileName(CursorEntry) = mode.original
               /\ status' # "panicked"
          ELSE /\ active' = active
               /\ left' = left
               /\ right' = right]_vars

\* C39 witness: r on B, a typed after the name, Enter: the commit has found
\* B under the cursor and moved it to Ba
C39_Witness ==
    /\ last.key = "Enter" /\ last.from = "Rename" /\ nkeys = 3
    /\ status = "running"
    /\ Exists(disk, << <<"d">>, <<"B", "a">> >>)
    /\ ~Exists(disk, << <<"d">>, <<"B">> >>)
    /\ CursorEntry = << <<"d">>, <<"B", "a">> >>

\* C40: a paste leaves its sources as they are: after p every path of the
\* trees on the clipboard that was on the disk is still there, with its
\* kind and content, also when the active pane shows the parent directory
\* of the source.
C40_PasteKeepsSources ==
    [][Handled("p", "Filer") =>
          \A src \in SeqSet(clipboard) : \A q \in Subtree(disk, src) :
             /\ Exists(disk', q)
             /\ disk'[q].kind = disk[q].kind
             /\ disk'[q].text = disk[q].text
             /\ disk'[q].lines = disk[q].lines
             /\ disk'[q].size = disk[q].size]_vars

====
